---- MODULE Spec2Model ----
(***************************************************************************)
(* A model of the help-to-OpenAPI schema compiler of poroshell             *)
(* (crates/schema): the dot-path language and the JSON patcher/reader of   *)
(* patch.rs, and the op_endpoint, tag and component resolvers of lib.rs and   *)
(* openapi.rs.                                                             *)
(*                                                                         *)
(* Strings are sequences of one-character strings, so that splitting,      *)
(* quoting, integer parsing and formatting are computed, not assumed.      *)
(***************************************************************************)
EXTENDS Integers, Sequences, FiniteSets

VARIABLES
    expr,       \* DotPathStr.0: the path expression handed to the tokenizer
    pathPc,     \* "start" | "iter" | "aborted": position of the tokenizer client
    tokens,     \* DotPathIterator.tokens
    index,      \* DotPathIterator.index
    yielded,    \* what successive DotPathIterator::next calls returned so far
    ended,      \* TRUE once DotPathIterator::next has returned None
    shown,      \* <<s>> once to_string was called on the iterator, else <<>>
    doc,        \* the serde_json::Value that patch_mut and navigate are called on
    before,     \* doc as it was when the last call started
    call,       \* the last call: its name, path, value / in_wild argument
    outcome,    \* what the last call returned: status, and navigate's Vec<&Value>
    patchPc,    \* "idle" | "patched" | "repeated" | "read"
    op_endpoint,     \* the help::Endpoint that operation is called on
    spec_components, \* the component schemas of the spec handed to operation
    op_result,       \* what operation returned
    opPc,            \* "call" | "returned"
    help_set,        \* the ExtendedHelp handed to openapi: types and endpoints
    doc_components,  \* the components of the OpenApiSpec
    doc_paths,       \* the paths of the OpenApiSpec
    raw_paths,       \* the paths as resolve_paths left them
    doc_tags,        \* the tags of the OpenApiSpec
    compileErr,      \* the error openapi returned, "-" if none
    compilePc,       \* "help" | "components" | "paths" | "tags" | "failed"
    full_endpoints,  \* the endpoint JSON values of extended_help
    fetched,         \* full_endpoints as they were fetched
    helpErr,         \* the error apply_endpoint_patches returned, "-" if none
    helpPc,          \* "fetched" | "patched" | "failed"
    enum_input,      \* the variants handed to sort_enum_variants
    enum_sorted,     \* the variants as sort_enum_variants left them
    enumPc,          \* "input" | "sorted"
    type_input,      \* the help::DataType handed to SchemaObject::try_from
    type_result,     \* what SchemaObject::try_from returned
    typePc,          \* "input" | "resolved"
    ser_map,         \* the entries of a hash map, in its iteration order
    ser_strings,     \* a Vec<String>
    serialized,      \* the JSON text the serializer wrote
    serPc,           \* "input" | "map" | "strings"
    schema_variants, \* the variants of a StringSchema
    schema_json,     \* what Serialize for StringSchema wrote, as a JSON value
    schema_read,     \* what Deserialize for StringSchema read back
    schemaPc         \* "schema" | "written" | "failed" | "read"

pathVars == <<expr, pathPc, tokens, index, yielded, ended, shown>>

patchVars == <<doc, before, call, outcome, patchPc>>

opVars == <<op_endpoint, spec_components, op_result, opPc>>

compileVars == <<help_set, doc_components, doc_paths, raw_paths, doc_tags, compileErr, compilePc>>

helpVars == <<full_endpoints, fetched, helpErr, helpPc>>

enumVars == <<enum_input, enum_sorted, enumPc>>

typeVars == <<type_input, type_result, typePc>>

serVars == <<ser_map, ser_strings, serialized, serPc>>

schemaVars == <<schema_variants, schema_json, schema_read, schemaPc>>

vars == <<pathVars, patchVars, opVars, compileVars, helpVars, enumVars, typeVars, serVars,
          schemaVars>>

(***************************************************************************)
(* Characters and strings                                                  *)
(***************************************************************************)
DOT == "."
QUOTE == "\""
STAR == "*"
PLUS == "+"

Digits == <<"0", "1", "2", "3", "4", "5", "6", "7", "8", "9">>

IsDigit(c) == \E i \in 1..10 : Digits[i] = c

DigitValue(c) == (CHOOSE i \in 1..10 : Digits[i] = c) - 1

\* the longest path expression handed to the tokenizer
MaxExprLen == 5

\* the characters path expressions are drawn from
PathChars == {"a", "0", "1", STAR, QUOTE, DOT}

RECURSIVE StringsUpTo(_, _)
StringsUpTo(chars, n) ==
    IF n = 0 THEN {<<>>}
    ELSE LET shorter == StringsUpTo(chars, n - 1)
         IN  shorter \cup {Append(s, c) : s \in {t \in shorter : Len(t) = n - 1}, c \in chars}

\* str::split('.'): always at least one segment, empty segments kept
RECURSIVE SplitDot(_)
SplitDot(s) ==
    IF \A i \in 1..Len(s) : s[i] # DOT THEN <<s>>
    ELSE LET d == CHOOSE i \in 1..Len(s) : s[i] = DOT /\ \A j \in 1..(i - 1) : s[j] # DOT
         IN  <<SubSeq(s, 1, d - 1)>> \o SplitDot(SubSeq(s, d + 1, Len(s)))

\* itertools::join(".")
RECURSIVE JoinDot(_)
JoinDot(segs) ==
    IF Len(segs) = 0 THEN <<>>
    ELSE IF Len(segs) = 1 THEN segs[1]
    ELSE segs[1] \o <<DOT>> \o JoinDot(Tail(segs))

\* the value of a string of decimal digits
RECURSIVE DecimalValue(_)
DecimalValue(ds) ==
    IF Len(ds) = 0 THEN 0
    ELSE 10 * DecimalValue(SubSeq(ds, 1, Len(ds) - 1)) + DigitValue(ds[Len(ds)])

\* write!(f, "{index}") of a usize
RECURSIVE FormatUsize(_)
FormatUsize(n) ==
    IF n < 10 THEN <<Digits[n + 1]>>
    ELSE Append(FormatUsize(n \div 10), Digits[(n % 10) + 1])

(***************************************************************************)
(* Tokens                                                                  *)
(***************************************************************************)
Property(name) == [kind |-> "Property", name |-> name, index |-> 0, wild |-> "-"]
Index(i) == [kind |-> "Index", name |-> <<>>, index |-> i, wild |-> "-"]
Wildcard(w) == [kind |-> "Wildcard", name |-> <<>>, index |-> 0, wild |-> w]

\* Option / abort outcomes of the parsing helpers
None == [some |-> FALSE, abort |-> FALSE]
Some(v) == [some |-> TRUE, abort |-> FALSE, value |-> v]
Abort == [some |-> FALSE, abort |-> TRUE]

StartsWithQuote(segment) == Len(segment) > 0 /\ segment[1] = QUOTE
EndsWithQuote(segment) == Len(segment) > 0 /\ segment[Len(segment)] = QUOTE

\* &segment[1..segment.len() - 1] aborts when 1 > len - 1, that is on the
\* one-character segment made of a double quote
parse_quoted_property(segment) ==
    IF StartsWithQuote(segment) /\ EndsWithQuote(segment)
    THEN IF Len(segment) - 1 < 1 THEN Abort
         ELSE Some(Property(SubSeq(segment, 2, Len(segment) - 1)))
    ELSE None

parse_wild_once_or_until_next(token) ==
    IF token = <<STAR, STAR>> THEN Some(Wildcard("UntilNext"))
    ELSE IF token = <<STAR>> THEN Some(Wildcard("Once"))
    ELSE None

\* str::parse::<usize>: an optional '+', then one or more decimal digits
ParseUsize(token) ==
    LET ds == IF Len(token) > 0 /\ token[1] = PLUS THEN Tail(token) ELSE token
    IN  IF Len(ds) > 0 /\ \A i \in 1..Len(ds) : IsDigit(ds[i])
        THEN Some(DecimalValue(ds))
        ELSE None

\* parse_token without its integer branch: a digit segment stays a property
parse_token_no_index(token) ==
    LET quoted == parse_quoted_property(token)
        wildcard == parse_wild_once_or_until_next(token)
    IN  IF quoted.abort THEN Abort
        ELSE IF quoted.some THEN quoted
        ELSE IF wildcard.some THEN wildcard
        ELSE Some(Property(token))

parse_token(token) ==
    LET quoted == parse_quoted_property(token)
        wildcard == parse_wild_once_or_until_next(token)
        number == ParseUsize(token)
    IN  IF quoted.abort THEN Abort
        ELSE IF quoted.some THEN quoted
        ELSE IF wildcard.some THEN wildcard
        ELSE IF number.some THEN Some(Index(number.value))
        ELSE Some(Property(token))

\* DotPathStr::tokenize: Ok(tokens), or the abort of the first segment that aborts
tokenize(e) ==
    LET segs == SplitDot(e)
        parsed == [i \in 1..Len(segs) |-> parse_token(segs[i])]
    IN  IF \E i \in 1..Len(segs) : parsed[i].abort THEN Abort
        ELSE Some([i \in 1..Len(segs) |-> parsed[i].value])

\* Display for Wildcard and for DotToken
DisplayToken(t) ==
    CASE t.kind = "Property" -> t.name
      [] t.kind = "Index" -> FormatUsize(t.index)
      [] OTHER -> IF t.wild = "Once" THEN <<STAR>> ELSE <<STAR, STAR>>

\* Display for DotPathIterator, which is also what Itertools::join(".") gives
DisplayTokens(ts) == JoinDot([i \in 1..Len(ts) |-> DisplayToken(ts[i])])

(***************************************************************************)
(* serde_json::Value                                                       *)
(*                                                                         *)
(* An object is its entries in ascending key order, one per key: this is   *)
(* the order serde_json::Map iterates in, and it makes equality of models  *)
(* the equality of documents.  An array is the sequence of its elements.   *)
(***************************************************************************)
Null == [t |-> "null", n |-> 0, e |-> <<>>]
Num(i) == [t |-> "num", n |-> i, e |-> <<>>]
Bool(b) == [t |-> "bool", n |-> IF b THEN 1 ELSE 0, e |-> <<>>]
Str(s) == [t |-> "str", n |-> 0, e |-> s]
Arr(elems) == [t |-> "arr", n |-> 0, e |-> elems]
Obj(entries) == [t |-> "obj", n |-> 0, e |-> entries]
Entry(k, v) == [k |-> k, v |-> v]

IsObject(v) == v.t = "obj"
IsArray(v) == v.t = "arr"

\* the characters of keys, in code point order
CharOrder ==
    <<" ", QUOTE, "#", "$", STAR, PLUS, "-", DOT, "/">> \o Digits \o
    <<"A", "B", "C", "D", "E", "F", "G", "H", "I", "J", "K", "L", "M",
      "N", "O", "P", "Q", "R", "S", "T", "U", "V", "W", "X", "Y", "Z">> \o
    <<"a", "b", "c", "d", "e", "f", "g", "h", "i", "j", "k", "l", "m",
      "n", "o", "p", "q", "r", "s", "t", "u", "v", "w", "x", "y", "z", "{", "}">>

CharRank(c) == CHOOSE i \in 1..Len(CharOrder) : CharOrder[i] = c

\* Ord for str
RECURSIVE StrLess(_, _)
StrLess(s, u) ==
    IF Len(u) = 0 THEN FALSE
    ELSE IF Len(s) = 0 THEN TRUE
    ELSE IF s[1] = u[1] THEN StrLess(Tail(s), Tail(u))
    ELSE CharRank(s[1]) < CharRank(u[1])

\* Map::contains_key
ContainsKey(obj, k) == \E i \in 1..Len(obj.e) : obj.e[i].k = k

KeyPos(obj, k) == CHOOSE i \in 1..Len(obj.e) : obj.e[i].k = k

\* Map::get / get_mut of a key that is present
Get(obj, k) == obj.e[KeyPos(obj, k)].v

\* an insert that adds an entry without looking for the key
InsertAppend(obj, k, v) == Obj(Append(obj.e, Entry(k, v)))

\* Map::insert: replaces the value of a present key, adds an absent one
Insert(obj, k, v) ==
    IF ContainsKey(obj, k)
    THEN Obj([obj.e EXCEPT ![KeyPos(obj, k)] = Entry(k, v)])
    ELSE LET lower == SelectSeq(obj.e, LAMBDA en : StrLess(en.k, k))
             upper == SelectSeq(obj.e, LAMBDA en : StrLess(k, en.k))
         IN  Obj(lower \o <<Entry(k, v)>> \o upper)

\* Map::remove
Remove(obj, k) == Obj(SelectSeq(obj.e, LAMBDA en : en.k # k))

\* Vec::resize_with(len, || Value::Null), growing only
ResizeWithNull(elems, len) ==
    [i \in 1..len |-> IF i <= Len(elems) THEN elems[i] ELSE Null]

\* Vec::remove(index), index in range
VecRemove(elems, i) == SubSeq(elems, 1, i) \o SubSeq(elems, i + 2, Len(elems))

\* Result<(), ParseError> of a patch together with the document it leaves
PatchOk(node) == [status |-> "ok", node |-> node]
PatchErr(node) == [status |-> "err", node |-> node]
PatchAbort(node) == [status |-> "abort", node |-> node]

(***************************************************************************)
(* Patch::patch_mut for Value                                              *)
(***************************************************************************)
RECURSIVE patch_mut(_, _, _)
RECURSIVE PatchWalk(_, _, _, _)
RECURSIVE PatchEach(_, _, _, _)

\* a fan-out that patches the first child only
PatchEachFirstOnly(children, j, sub_path, value) ==
    IF j > Len(children) \/ j > 1 THEN PatchOk(children)
    ELSE LET r == patch_mut(children[j], sub_path, value)
         IN  [status |-> r.status, node |-> [children EXCEPT ![j] = r.node]]

\* the loop `for v in values_mut() { v.patch_mut(sub_path, value.clone())?; }`
\* over the children from position j on: it stops at the first failure
PatchEach(children, j, sub_path, value) ==
    IF j > Len(children) THEN PatchOk(children)
    ELSE LET r == patch_mut(children[j], sub_path, value)
             done == [children EXCEPT ![j] = r.node]
         IN  IF r.status = "ok" THEN PatchEach(done, j + 1, sub_path, value)
             ELSE [status |-> r.status, node |-> done]

\* one turn of `while let Some(token) = tokens.next()` with `current` = node
\* and toks[i] the token taken; what is returned is node after the call
PatchWalk(node, toks, i, value) ==
    IF i > Len(toks) THEN PatchErr(node)
    ELSE
    LET token == toks[i]
        last == (i = Len(toks))
    IN  CASE token.kind = "Property" ->
               IF ~IsObject(node) THEN PatchErr(node)
               ELSE IF last
               THEN IF value.some THEN PatchOk(Insert(node, token.name, value.value))
                    ELSE PatchOk(Remove(node, token.name))
               ELSE LET created == IF ContainsKey(node, token.name) THEN node
                                   ELSE Insert(node, token.name, Obj(<<>>))
                        r == PatchWalk(Get(created, token.name), toks, i + 1, value)
                    IN  [status |-> r.status, node |-> Insert(created, token.name, r.node)]
          [] token.kind = "Index" ->
               IF ~IsArray(node) THEN PatchErr(node)
               ELSE IF last
               THEN IF value.some
                    THEN LET grown == IF token.index >= Len(node.e)
                                      THEN ResizeWithNull(node.e, token.index + 1)
                                      ELSE node.e
                         IN  PatchOk(Arr([grown EXCEPT ![token.index + 1] = value.value]))
                    ELSE IF token.index < Len(node.e)
                         THEN PatchOk(Arr(VecRemove(node.e, token.index)))
                         ELSE PatchOk(node)
               ELSE IF token.index < Len(node.e)
                    THEN LET r == PatchWalk(node.e[token.index + 1], toks, i + 1, value)
                         IN  [status |-> r.status,
                              node |-> Arr([node.e EXCEPT ![token.index + 1] = r.node])]
                    ELSE PatchErr(node)
          [] OTHER ->
               LET sub_path == DisplayTokens(SubSeq(toks, i + 1, Len(toks)))
               IN  IF IsObject(node)
                   THEN LET r == PatchEach([j \in 1..Len(node.e) |-> node.e[j].v], 1,
                                           sub_path, value)
                        IN  [status |-> r.status,
                             node |-> Obj([j \in 1..Len(node.e) |->
                                             Entry(node.e[j].k, r.node[j])])]
                   ELSE IF IsArray(node)
                   THEN LET r == PatchEach(node.e, 1, sub_path, value)
                        IN  [status |-> r.status, node |-> Arr(r.node)]
                   ELSE PatchErr(node)

patch_mut(node, path, value) ==
    LET parsed == tokenize(path)
    IN  IF parsed.abort THEN PatchAbort(node)
        ELSE PatchWalk(node, parsed.value, 1, value)

(***************************************************************************)
(* Patch::navigate for Value                                               *)
(*                                                                         *)
(* A &Value of the result is modelled by its location: the steps from the  *)
(* root of the document to the node.                                       *)
(***************************************************************************)
KeyStep(k) == [key |-> k, idx |-> -1]
IdxStep(i) == [key |-> <<>>, idx |-> i]

\* the children of a container with the step that leads to each, in the
\* order values() / iter() visits them; a scalar has none
Children(node) ==
    IF IsObject(node)
    THEN [j \in 1..Len(node.e) |-> [step |-> KeyStep(node.e[j].k), v |-> node.e[j].v]]
    ELSE IF IsArray(node)
    THEN [j \in 1..Len(node.e) |-> [step |-> IdxStep(j - 1), v |-> node.e[j]]]
    ELSE <<>>

NavOk(result) == [status |-> "ok", result |-> result]
\* a failure taken for a walk that found nothing
NavErrAsEmpty == [status |-> "ok", result |-> <<>>]
NavErr == [status |-> "err", result |-> <<>>]
NavAbort == [status |-> "abort", result |-> <<>>]

\* Peekable::peek on an iterator that has yielded pos tokens
PeekIsNone(toks, pos) == pos >= Len(toks)

\* Iterator::next on the same: the position afterwards
Advance(toks, pos) == IF pos < Len(toks) THEN pos + 1 ELSE pos

RECURSIVE traverse_until_next_helper(_, _, _, _, _)
RECURSIVE HelperEach(_, _, _, _, _, _)

\* `for v in values() { traverse_until_next_helper(v, next_token, tokens.clone(), result)?; }`
HelperEach(kids, j, loc, next_token, toks, pos) ==
    IF j > Len(kids) THEN <<>>
    ELSE traverse_until_next_helper(kids[j].v, Append(loc, kids[j].step), next_token, toks, pos)
         \o HelperEach(kids, j + 1, loc, next_token, toks, pos)

\* what traverse_until_next_helper pushes on result, in order; current is the
\* node at loc and the iterator has yielded pos of toks
traverse_until_next_helper(current, loc, next_token, toks, pos) ==
    LET matched ==
            IF IsObject(current)
            THEN CASE next_token.kind = "Property" ->
                        IF ContainsKey(current, next_token.name)
                        THEN <<KeyStep(next_token.name)>> ELSE <<>>
                   [] next_token.kind = "Index" ->
                        IF ContainsKey(current, FormatUsize(next_token.index))
                        THEN <<KeyStep(FormatUsize(next_token.index))>> ELSE <<>>
                   [] OTHER -> <<>>
            ELSE IF IsArray(current)
            THEN IF next_token.kind = "Index" /\ next_token.index < Len(current.e)
                 THEN <<IdxStep(next_token.index)>> ELSE <<>>
            ELSE <<>>
        value == IF matched[1].idx >= 0 THEN current.e[matched[1].idx + 1]
                 ELSE Get(current, matched[1].key)
        pos2 == IF matched # <<>> THEN Advance(toks, pos) ELSE pos
        found ==
            IF matched = <<>> THEN <<>>
            ELSE IF PeekIsNone(toks, pos2) THEN <<Append(loc, matched[1])>>
            ELSE traverse_until_next_helper(value, Append(loc, matched[1]), next_token, toks, pos2)
    IN  IF IsObject(current) \/ IsArray(current)
        THEN found \o HelperEach(Children(current), 1, loc, next_token, toks, pos2)
        ELSE <<>>

RECURSIVE navigate(_, _, _, _)
RECURSIVE NavWalk(_, _, _, _, _, _)
RECURSIVE NavEachOnce(_, _, _, _)
RECURSIVE NavEachStrict(_, _, _, _)

\* `for v in values() { if let Ok(sub) = v.navigate(sub_path, true) { result.extend(sub) } }`:
\* a failed child adds nothing, an aborted one aborts the call
NavEachOnce(kids, j, loc, sub_path) ==
    IF j > Len(kids) THEN NavOk(<<>>)
    ELSE LET r == navigate(kids[j].v, Append(loc, kids[j].step), sub_path, TRUE)
         IN  IF r.status = "abort" THEN r
             ELSE LET rest == NavEachOnce(kids, j + 1, loc, sub_path)
                  IN  IF rest.status = "abort" THEN rest
                      ELSE NavOk((IF r.status = "ok" THEN r.result ELSE <<>>) \o rest.result)

\* `for v in values { let sub = v.navigate(sub_path, true)?; result.extend(sub) }`
NavEachStrict(kids, j, loc, sub_path) ==
    IF j > Len(kids) THEN NavOk(<<>>)
    ELSE LET r == navigate(kids[j].v, Append(loc, kids[j].step), sub_path, TRUE)
         IN  IF r.status # "ok" THEN r
             ELSE LET rest == NavEachStrict(kids, j + 1, loc, sub_path)
                  IN  IF rest.status # "ok" THEN rest
                      ELSE NavOk(r.result \o rest.result)

\* traverse_until_next: what it adds to result, or its failure; the iterator
\* has yielded the first i tokens (the `**` included)
traverse_until_next(current, loc, toks, i) ==
    IF ~PeekIsNone(toks, i)
    THEN NavOk(traverse_until_next_helper(current, loc, toks[i + 1], toks, i))
    ELSE NavEachStrict(Children(current), 1, loc,
                       DisplayTokens(SubSeq(toks, i + 1, Len(toks))))

\* the loop `while let Some(token) = tokens.next()` from token i on, with
\* `current` the node at loc and result what was pushed so far
NavWalk(current, loc, toks, i, in_wild, result) ==
    IF i > Len(toks) THEN NavOk(result)
    ELSE
    LET token == toks[i]
        last == PeekIsNone(toks, i)
        skip == IF in_wild THEN NavWalk(current, loc, toks, i + 1, in_wild, result)
                ELSE NavErr
    IN  CASE token.kind = "Property" ->
               IF IsObject(current) /\ ContainsKey(current, token.name)
               THEN LET there == Append(loc, KeyStep(token.name))
                    IN  NavWalk(Get(current, token.name), there, toks, i + 1, in_wild,
                                IF last THEN Append(result, there) ELSE result)
               ELSE skip
          [] token.kind = "Index" ->
               IF IsArray(current) /\ token.index < Len(current.e)
               THEN LET there == Append(loc, IdxStep(token.index))
                    IN  NavWalk(current.e[token.index + 1], there, toks, i + 1, in_wild,
                                IF last THEN Append(result, there) ELSE result)
               ELSE skip
          [] OTHER ->
               IF ~(IsObject(current) \/ IsArray(current)) THEN NavErr
               ELSE IF token.wild = "Once"
               THEN LET r == NavEachOnce(Children(current), 1, loc,
                                         DisplayTokens(SubSeq(toks, i + 1, Len(toks))))
                    IN  IF r.status # "ok" THEN r
                        ELSE NavWalk(current, loc, toks, i + 1, in_wild, result \o r.result)
               ELSE LET r == traverse_until_next(current, loc, toks, i)
                    IN  IF r.status # "ok" THEN r
                        ELSE NavWalk(current, loc, toks, i + 1, in_wild, result \o r.result)

\* navigate on the node at loc; the locations returned are from the root
navigate(node, loc, path, in_wild) ==
    LET parsed == tokenize(path)
    IN  IF parsed.abort THEN NavAbort
        ELSE NavWalk(node, loc, parsed.value, 1, in_wild, <<>>)

(***************************************************************************)
(* The tokenizer and its iterator, step by step                            *)
(***************************************************************************)
PathExprs == StringsUpTo(PathChars, MaxExprLen)

PathIdle ==
    /\ expr = <<>>
    /\ pathPc = "off"
    /\ tokens = <<>>
    /\ index = 0
    /\ yielded = <<>>
    /\ ended = FALSE
    /\ shown = <<>>

InitPath ==
    /\ expr \in PathExprs
    /\ pathPc = "start"
    /\ tokens = <<>>
    /\ index = 0
    /\ yielded = <<>>
    /\ ended = FALSE
    /\ shown = <<>>

\* DotPathIterator::try_from(&path)
TryFrom ==
    /\ pathPc = "start"
    /\ LET r == tokenize(expr)
       IN  IF r.abort
           THEN /\ pathPc' = "aborted"
                /\ tokens' = tokens
           ELSE /\ pathPc' = "iter"
                /\ tokens' = r.value
    /\ index' = 0
    /\ UNCHANGED <<expr, yielded, ended, shown>>
    /\ UNCHANGED <<patchVars, opVars, compileVars, helpVars, enumVars, typeVars, serVars, schemaVars>>

\* DotPathIterator::next
IterNext ==
    /\ pathPc = "iter"
    /\ ~ended
    /\ IF index < Len(tokens)
       THEN /\ yielded' = Append(yielded, tokens[index + 1])
            /\ index' = index + 1
            /\ ended' = FALSE
       ELSE /\ ended' = TRUE
            /\ UNCHANGED <<yielded, index>>
    /\ UNCHANGED <<expr, pathPc, tokens, shown>>
    /\ UNCHANGED <<patchVars, opVars, compileVars, helpVars, enumVars, typeVars, serVars, schemaVars>>

\* DotPathIterator::to_string
to_string ==
    /\ pathPc = "iter"
    /\ shown = <<>>
    /\ shown' = <<DisplayTokens(tokens)>>
    /\ UNCHANGED <<expr, pathPc, tokens, index, yielded, ended>>
    /\ UNCHANGED <<patchVars, opVars, compileVars, helpVars, enumVars, typeVars, serVars, schemaVars>>

NextPath == TryFrom \/ IterNext \/ to_string

(***************************************************************************)
(* Documents, and calls of patch_mut and navigate on them                  *)
(***************************************************************************)
\* the most nodes (scalars, arrays, objects) a document starts with
MaxNodes == 4

KeyA == <<"a">>
KeyK == <<"k">>

\* the key lists of the objects of starting documents, each in key order
DocKeys == {KeyA, KeyK}

DocKeyLists == {ks \in UNION {[1..m -> DocKeys] : m \in 1..Cardinality(DocKeys)} :
                    \A i \in 1..(Len(ks) - 1) : StrLess(ks[i], ks[i + 1])}

RECURSIVE SumTo(_, _)
SumTo(f, m) == IF m = 0 THEN 0 ELSE f[m] + SumTo(f, m - 1)

\* the documents of exactly n nodes
RECURSIVE DocsOfSize(_)
RECURSIVE KidsOfSizes(_)

\* the child lists whose i-th child has sz[i] nodes
KidsOfSizes(sz) ==
    IF Len(sz) = 0 THEN {<<>>}
    ELSE {<<h>> \o t : h \in DocsOfSize(sz[1]), t \in KidsOfSizes(Tail(sz))}

DocsOfSize(n) ==
    IF n = 1 THEN {Num(1), Arr(<<>>), Obj(<<>>)}
    ELSE LET shapes == UNION {{sz \in [1..m -> 1..(n - 1)] : SumTo(sz, m) = n - 1} :
                                 m \in 1..(n - 1)}
             kids == UNION {KidsOfSizes(sz) : sz \in shapes}
         IN  {Arr(c) : c \in kids}
             \cup UNION {{Obj([i \in 1..Len(c) |-> Entry(ks[i], c[i])]) :
                             ks \in {l \in DocKeyLists : Len(l) = Len(c)}} : c \in kids}

Docs == UNION {DocsOfSize(n) : n \in 1..MaxNodes}

\* the segments path expressions are built from
Segments == {KeyA, KeyK, <<"0">>, <<STAR>>, <<STAR, STAR>>}

\* longer expressions: a fan-out below a prefix, a suffix of two literals,
\* a quoted key, an index past the end
LongPaths == {JoinDot(p) : p \in {<<KeyA, <<STAR>>, KeyK>>,
                                 <<<<STAR, STAR>>, KeyA, KeyK>>,
                                 <<KeyA, <<"0">>, KeyK>>,
                                 <<<<"0">>, <<STAR>>, KeyK>>,
                                 <<<<STAR>>, <<QUOTE, "0", QUOTE>>>>,
                                 << <<"2">> >>}}

\* every expression of one or two segments, and the longer ones
Paths == Segments \cup {JoinDot(<<s1, s2>>) : s1 \in Segments, s2 \in Segments} \cup LongPaths

\* the value arguments of patch_mut: set to 2 (no starting document holds a 2), or remove
Values == {Some(Num(2)), None}

NoCall == [op |-> "none", path |-> <<>>, value |-> None, in_wild |-> FALSE]

PatchIdle ==
    /\ doc = Null
    /\ before = Null
    /\ call = NoCall
    /\ outcome = NavOk(<<>>)
    /\ patchPc = "off"

InitPatch ==
    /\ doc \in Docs
    /\ before = doc
    /\ call = NoCall
    /\ outcome = NavOk(<<>>)
    /\ patchPc = "idle"

\* doc.patch_mut(path, value)
PatchMut ==
    /\ patchPc = "idle"
    /\ \E path \in Paths, value \in Values :
         LET r == patch_mut(doc, path, value)
         IN  /\ doc' = r.node
             /\ call' = [op |-> "patch_mut", path |-> path, value |-> value, in_wild |-> FALSE]
             /\ outcome' = [status |-> r.status, result |-> <<>>]
    /\ before' = doc
    /\ patchPc' = "patched"
    /\ UNCHANGED <<pathVars, opVars, compileVars, helpVars, enumVars, typeVars, serVars, schemaVars>>

\* the same patch applied a second time
PatchAgain ==
    /\ patchPc = "patched"
    /\ LET r == patch_mut(doc, call.path, call.value)
       IN  /\ doc' = r.node
           /\ outcome' = [status |-> r.status, result |-> <<>>]
    /\ before' = doc
    /\ patchPc' = "repeated"
    /\ UNCHANGED call
    /\ UNCHANGED <<pathVars, opVars, compileVars, helpVars, enumVars, typeVars, serVars, schemaVars>>

\* doc.navigate(path, in_wild)
Navigate ==
    /\ patchPc = "idle"
    /\ \E path \in Paths, in_wild \in BOOLEAN :
         /\ outcome' = navigate(doc, <<>>, path, in_wild)
         /\ call' = [op |-> "navigate", path |-> path, value |-> None, in_wild |-> in_wild]
    /\ patchPc' = "read"
    /\ UNCHANGED <<doc, before>>
    /\ UNCHANGED <<pathVars, opVars, compileVars, helpVars, enumVars, typeVars, serVars, schemaVars>>

NextPatch == PatchMut \/ PatchAgain \/ Navigate

(***************************************************************************)
(* Strings of the help data: type names, argument names, tags, URL paths   *)
(***************************************************************************)
SLASH == "/"
DOLLAR == "$"
SPACE == " "

UpperChars ==
    <<"A", "B", "C", "D", "E", "F", "G", "H", "I", "J", "K", "L", "M",
      "N", "O", "P", "Q", "R", "S", "T", "U", "V", "W", "X", "Y", "Z">>
LowerChars ==
    <<"a", "b", "c", "d", "e", "f", "g", "h", "i", "j", "k", "l", "m",
      "n", "o", "p", "q", "r", "s", "t", "u", "v", "w", "x", "y", "z">>

\* char::to_lowercase on the characters in use
ToLowerChar(c) ==
    IF \E i \in 1..Len(UpperChars) : UpperChars[i] = c
    THEN LowerChars[CHOOSE i \in 1..Len(UpperChars) : UpperChars[i] = c]
    ELSE c

\* str::to_lowercase
to_lowercase(s) == [i \in 1..Len(s) |-> ToLowerChar(s[i])]

\* str::starts_with
starts_with(s, prefix) ==
    Len(prefix) <= Len(s) /\ SubSeq(s, 1, Len(prefix)) = prefix

Skip(seq, n) == SubSeq(seq, n + 1, Len(seq))

Range(seq) == {seq[i] : i \in 1..Len(seq)}

\* the position of the first occurrence of character c in s, 0 if none
RECURSIVE FindChar(_, _, _)
FindChar(s, c, i) ==
    IF i > Len(s) THEN 0 ELSE IF s[i] = c THEN i ELSE FindChar(s, c, i + 1)

\* str::replacen(c, "", 1): the first occurrence of c is removed
RemoveFirst(s, c) ==
    LET i == FindChar(s, c, 1)
    IN  IF i = 0 THEN s ELSE SubSeq(s, 1, i - 1) \o Skip(s, i)

\* str::split(c): always at least one piece, empty pieces kept
RECURSIVE Split(_, _)
Split(s, c) ==
    LET i == FindChar(s, c, 1)
    IN  IF i = 0 THEN <<s>> ELSE <<SubSeq(s, 1, i - 1)>> \o Split(Skip(s, i), c)

\* str::trim_start_matches(prefix): the prefix is removed as often as it leads
RECURSIVE trim_start_matches(_, _)
trim_start_matches(s, prefix) ==
    IF Len(prefix) > 0 /\ starts_with(s, prefix)
    THEN trim_start_matches(Skip(s, Len(prefix)), prefix)
    ELSE s

Lit_array == <<"a", "r", "r", "a", "y">>
Lit_vector == <<"v", "e", "c", "t", "o", "r">>
Lit_map == <<"m", "a", "p">>
Lit_object == <<"o", "b", "j", "e", "c", "t">>
Lit_string == <<"s", "t", "r", "i", "n", "g">>
Lit_bool == <<"b", "o", "o", "l">>
Lit_boolean == <<"b", "o", "o", "l", "e", "a", "n">>
Lit_float == <<"f", "l", "o", "a", "t">>
Lit_double == <<"d", "o", "u", "b", "l", "e">>
Lit_uint8 == <<"u", "i", "n", "t", "8">>
Lit_uint16 == <<"u", "i", "n", "t", "1", "6">>
Lit_uint32 == <<"u", "i", "n", "t", "3", "2">>
Lit_uint64 == <<"u", "i", "n", "t", "6", "4">>
Lit_int8 == <<"i", "n", "t", "8">>
Lit_int16 == <<"i", "n", "t", "1", "6">>
Lit_int32 == <<"i", "n", "t", "3", "2">>
Lit_int64 == <<"i", "n", "t", "6", "4">>
Lit_other == <<"o", "t", "h", "e", "r">>
Lit_Plugin == <<"P", "l", "u", "g", "i", "n">>
Lit_PluginSpace == <<"P", "l", "u", "g", "i", "n", " ">>
Lit_PluginLol == <<"P", "l", "u", "g", "i", "n", " ", "l", "o", "l">>
Lit_Plugins == <<"P", "l", "u", "g", "i", "n", "s">>
Lit_PluginStaticAssets == <<"P", "l", "u", "g", "i", "n", " ", "S", "t", "a", "t", "i", "c", " ", "A", "s", "s", "e", "t", "s">>
Lit_RemotingBindingModule == <<"$", "r", "e", "m", "o", "t", "i", "n", "g", "-", "b", "i", "n", "d", "i", "n", "g", "-", "m", "o", "d", "u", "l", "e">>
Lit_SlashLol == <<"/", "l", "o", "l", "-">>
Lit_SlashPlugin == <<"/", "{", "p", "l", "u", "g", "i", "n", "}">>
Lit_SchemasPrefix == <<"#", "/", "c", "o", "m", "p", "o", "n", "e", "n", "t", "s", "/", "s", "c", "h", "e", "m", "a", "s", "/">>

(***************************************************************************)
(* Schema objects and the type resolver                                    *)
(***************************************************************************)
Ok(v) == [ok |-> TRUE, v |-> v, err |-> "-"]
Err(e) == [ok |-> FALSE, v |-> <<>>, err |-> e]

\* help::DataType
DataType(ty, element_type) == [ty |-> ty, element_type |-> element_type]

\* AdditionalProperties::Bool / AdditionalProperties::Schema
AdditionalBool(b) == [ap |-> "bool", b |-> b]
AdditionalSchema(schema) == [ap |-> "schema", schema |-> schema]

\* TypedSchema variants
StringSchema(variants) == [kind |-> "String", variants |-> variants]
BooleanSchema == [kind |-> "Boolean"]
NumberSchema(format) == [kind |-> "Number", format |-> format]
IntegerSchema(format) == [kind |-> "Integer", format |-> format]
ArraySchema(items) == [kind |-> "Array", items |-> items]
RefSchema(ref_) == [kind |-> "Ref", ref_ |-> ref_]
ObjectSchema(properties, required, additional_properties) ==
    [kind |-> "Object", properties |-> properties, required |-> required,
     additional_properties |-> additional_properties]

\* SchemaObject::object_of(true)
object_of_true == ObjectSchema(<<>>, <<>>, AdditionalBool(TRUE))

\* SchemaObject::component_ref
component_ref(name) ==
    RefSchema(Lit_SchemasPrefix \o
              trim_start_matches(trim_start_matches(name, <<SLASH>>), Lit_SchemasPrefix))

IntegerFormats ==
    {Lit_uint8, Lit_uint16, Lit_uint32, Lit_uint64, Lit_int8, Lit_int16, Lit_int32, Lit_int64}

\* SchemaObject::try_parse_item_type
try_parse_item_type(ty) ==
    CASE ty \in {Lit_array, Lit_vector} -> Err("VectorTypesShouldBeParsed")
      [] ty \in {Lit_map, Lit_object} -> Err("ObjectTypesShouldBeParsed")
      [] ty = Lit_string -> Ok(StringSchema(<<>>))
      [] ty \in {Lit_bool, Lit_boolean} -> Ok(BooleanSchema)
      [] ty = <<>> -> Ok(object_of_true)
      [] ty \in {Lit_float, Lit_double} -> Ok(NumberSchema(ty))
      [] ty \in IntegerFormats -> Ok(IntegerSchema(ty))
      [] OTHER -> Ok(component_ref(ty))

\* the `?` of a Result followed by more work on the value
AndThen(r, F(_)) == IF r.ok THEN F(r.v) ELSE r

\* Result::map
MapOk(r, F(_)) == IF r.ok THEN Ok(F(r.v)) ELSE r

\* DataType::is_generic_object
is_generic_object(data_type) == data_type.ty = Lit_object /\ data_type.element_type = <<>>

\* the element type of a container: a nested object or map falls back to the
\* unconstrained object, every other failure is returned
ElementOr(elem) ==
    IF ~elem.ok /\ elem.err = "ObjectTypesShouldBeParsed" THEN Ok(object_of_true) ELSE elem

\* the match on try_parse_item_type(&data_type.ty)
FromParsed(res, data_type) ==
    CASE ~res.ok /\ res.err = "VectorTypesShouldBeParsed" ->
             MapOk(ElementOr(try_parse_item_type(data_type.element_type)),
                   LAMBDA items : ArraySchema(items))
      [] ~res.ok /\ res.err = "ObjectTypesShouldBeParsed" ->
             MapOk(ElementOr(try_parse_item_type(data_type.element_type)),
                   LAMBDA schema : ObjectSchema(<<>>, <<>>, AdditionalSchema(schema)))
      [] OTHER -> res

\* impl TryFrom<&help::DataType> for SchemaObject
SchemaFromDataType(data_type) ==
    IF is_generic_object(data_type) THEN Ok(object_of_true)
    ELSE FromParsed(try_parse_item_type(data_type.ty), data_type)

\* help::Value, help::Field / help::Argument, help::Type
HelpValue(name, description, value) ==
    [name |-> name, description |-> description, value |-> value]
Argument(name, is_optional, ty) == [name |-> name, is_optional |-> is_optional, ty |-> ty]
Type(name, fields, values) == [name |-> name, fields |-> fields, values |-> values]

\* EnumKey and EnumVariant
EnumKey(k, n, s) == [k |-> k, n |-> n, s |-> s]
EnumVariant(key, name, description) ==
    [key |-> key, name |-> name, description |-> description]

StrCmp(a, b) == IF a = b THEN 0 ELSE IF StrLess(a, b) THEN -1 ELSE 1

IntCmp(a, b) == IF a = b THEN 0 ELSE IF a < b THEN -1 ELSE 1

\* impl PartialOrd for EnumKey
EnumKeyCmp(a, b) ==
    CASE a.k = "None" /\ b.k = "None" -> 0
      [] a.k = "None" -> -1
      [] b.k = "None" -> 1
      [] a.k = "Bool" /\ b.k = "Bool" -> IntCmp(a.n, b.n)
      [] a.k = "Number" /\ b.k = "Number" -> StrCmp(FormatUsize(a.n), FormatUsize(b.n))
      [] a.k = "String" /\ b.k = "String" -> StrCmp(a.s, b.s)
      [] a.k = "Bool" -> -1
      [] a.k = "Number" /\ b.k = "Bool" -> 1
      [] a.k = "Number" -> -1
      [] OTHER -> 1

\* Option<String>::cmp
OptionStrCmp(a, b) ==
    CASE ~a.some /\ ~b.some -> 0
      [] ~a.some -> -1
      [] ~b.some -> 1
      [] OTHER -> StrCmp(a.value, b.value)

\* the comparison sort_enum_variants sorts by
VariantCmp(by_name, a, b) ==
    IF by_name THEN OptionStrCmp(a.name, b.name) ELSE EnumKeyCmp(a.key, b.key)

\* slice::sort_by, a stable sort: each element goes behind the elements
\* that are not greater than it
RECURSIVE InsertVariant(_, _, _)
InsertVariant(sorted, x, by_name) ==
    IF Len(sorted) = 0 THEN <<x>>
    ELSE LET last == sorted[Len(sorted)]
         IN  IF VariantCmp(by_name, last, x) > 0
             THEN Append(InsertVariant(SubSeq(sorted, 1, Len(sorted) - 1), x, by_name), last)
             ELSE Append(sorted, x)

RECURSIVE SortVariants(_, _, _)
SortVariants(variants, n, by_name) ==
    IF n = 0 THEN <<>>
    ELSE InsertVariant(SortVariants(variants, n - 1, by_name), variants[n], by_name)

\* sort_enum_variants
sort_enum_variants(variants) ==
    SortVariants(variants, Len(variants),
                 \E i \in 1..Len(variants) : variants[i].key.k = "None")

\* the key of the variant made from a help value
KeyOfValue(value) ==
    CASE value.t = "null" -> Ok(EnumKey("None", 0, <<>>))
      [] value.t = "bool" -> Ok(EnumKey("Bool", value.n, <<>>))
      [] value.t = "num" -> Ok(EnumKey("Number", value.n, <<>>))
      [] value.t = "str" -> Ok(EnumKey("String", 0, value.e))
      [] OTHER -> Err("Json")

OptionOfNonEmpty(s) == IF s = <<>> THEN None ELSE Some(s)

\* the variants of the values of an enum type from value i on, behind the
\* variants made so far, or the first failure
RECURSIVE VariantsLoop(_, _, _)
VariantsLoop(values, i, made) ==
    IF i > Len(values) \/ ~made.ok THEN made
    ELSE VariantsLoop(values, i + 1,
                      MapOk(KeyOfValue(values[i].value),
                            LAMBDA key : Append(made.v,
                                                EnumVariant(key, OptionOfNonEmpty(values[i].name),
                                                            OptionOfNonEmpty(values[i].description)))))

Property_(name, schema) == [name |-> name, schema |-> schema]

ContainsProperty(properties, name) ==
    \E i \in 1..Len(properties) : properties[i].name = name

\* HashMap::insert of an absent name; the map is kept in ascending name order
InsertProperty(properties, name, schema) ==
    SelectSeq(properties, LAMBDA p : StrLess(p.name, name))
    \o <<Property_(name, schema)>>
    \o SelectSeq(properties, LAMBDA p : StrLess(name, p.name))

\* one round of the loop over ty.fields: r is the schema of the field's type
AddField(object, field, r) ==
    IF ContainsProperty(object.properties, field.name) THEN Ok(object)
    ELSE IF r.ok
    THEN Ok([properties |-> InsertProperty(object.properties, field.name, r.v),
             required |-> IF field.is_optional THEN object.required
                          ELSE Append(object.required, field.name)])
    ELSE IF r.err = "PrivateApiTypeNotSupported" THEN Ok(object)
    ELSE r

\* the loop over ty.fields from field i on
RECURSIVE FieldsLoop(_, _, _)
FieldsLoop(fields, i, object) ==
    IF i > Len(fields) \/ ~object.ok THEN object
    ELSE FieldsLoop(fields, i + 1,
                    AddField(object.v, fields[i], SchemaFromDataType(fields[i].ty)))

\* what try_from returns once the loop over the fields has run
TypeSchema(ty, looped) ==
    IF ty.fields # <<>> /\ ty.values # <<>> THEN Err("panic")
    ELSE IF ~looped.ok THEN looped
    ELSE IF ty.fields # <<>>
    THEN Ok(ObjectSchema(looped.v.properties, looped.v.required, AdditionalBool(FALSE)))
    ELSE IF ty.values # <<>>
    THEN MapOk(VariantsLoop(ty.values, 1, Ok(<<>>)),
               LAMBDA variants : StringSchema(sort_enum_variants(variants)))
    ELSE Err("PrivateApiTypeNotSupported")

\* impl TryFrom<&help::Type> for SchemaObject
SchemaFromType(ty) ==
    TypeSchema(ty, FieldsLoop(ty.fields, 1, Ok([properties |-> <<>>, required |-> <<>>])))

(***************************************************************************)
(* The endpoint resolver                                                   *)
(***************************************************************************)
\* help::Endpoint
Endpoint(name, method, path, path_params, arguments, return_ty, tags) ==
    [name |-> name, method |-> method, path |-> path, path_params |-> path_params,
     arguments |-> arguments, return_ty |-> return_ty, tags |-> tags]

\* Param::Path / Param::Query
Param(in, name, schema, is_required) ==
    [in |-> in, name |-> name, schema |-> schema, is_required |-> is_required]

\* collect::<Result<Vec<_>, _>>: the values, or the first failure
Collect(results) ==
    IF \E i \in 1..Len(results) : ~results[i].ok
    THEN results[CHOOSE i \in 1..Len(results) :
                    ~results[i].ok /\ \A j \in 1..(i - 1) : results[j].ok]
    ELSE Ok([i \in 1..Len(results) |-> results[i].v])

\* the type of the first argument named as the path parameter, a `+` left
\* out of both names; DataType::string() without such an argument
PathParamType(arguments, param) ==
    LET matches(arg) == RemoveFirst(arg.name, PLUS) = RemoveFirst(param, PLUS)
    IN  IF \E i \in 1..Len(arguments) : matches(arguments[i])
        THEN arguments[CHOOSE i \in 1..Len(arguments) :
                          matches(arguments[i])
                          /\ \A j \in 1..(i - 1) : ~matches(arguments[j])].ty
        ELSE DataType(Lit_string, <<>>)

\* Endpoint::path_param_as_path_variant
path_param_as_path_variant(endpoint, param) ==
    MapOk(SchemaFromDataType(PathParamType(endpoint.arguments, param)),
          LAMBDA schema : Param("path", param, schema, TRUE))

\* Argument::as_query_param
as_query_param(arg) ==
    MapOk(SchemaFromDataType(arg.ty),
          LAMBDA schema : Param("query", arg.name, schema, ~arg.is_optional))

\* HashMap::get on the component schemas
ComponentGet(components, name) ==
    IF ContainsProperty(components, name)
    THEN Some(components[CHOOSE i \in 1..Len(components) : components[i].name = name].schema)
    ELSE None

\* the orders a hash map of n entries can be iterated in
Perms(n) == {f \in [1..n -> 1..n] : \A i, j \in 1..n : f[i] = f[j] => i = j}

\* the entries of a map in the iteration order `order`
InOrder(entries, order) == [i \in 1..Len(entries) |-> entries[order[i]]]

Last(seq) == seq[Len(seq)]

OkOrInvalidData(found) == IF found.some THEN Ok(found.value) ELSE Err("InvalidData")

\* the schema whose properties may be flattened: a reference is looked up
\* under ref_.split("/").last()
Resolved(schema, components) ==
    IF schema.kind = "Ref"
    THEN OkOrInvalidData(ComponentGet(components, Last(Split(schema.ref_, SLASH))))
    ELSE Ok(schema)

\* the flattening with every parameter required, whatever the argument
FlattenedAllRequired(properties, is_optional) ==
    [i \in 1..Len(properties) |->
        Param("query", properties[i].name, properties[i].schema, TRUE)]

\* one query parameter per property of an object schema
Flattened(properties, is_optional) ==
    [i \in 1..Len(properties) |->
        Param("query", properties[i].name, properties[i].schema, ~is_optional)]

\* the body of the loop for the verbs without a request body: the query
\* parameters one remaining argument gives
QueryParamsOf(arg, components, order) ==
    AndThen(SchemaFromDataType(arg.ty),
            LAMBDA schema :
                AndThen(Resolved(schema, components),
                        LAMBDA resolved :
                            IF resolved.kind = "Object"
                            THEN Ok(Flattened(InOrder(resolved.properties, order),
                                              arg.is_optional))
                            ELSE MapOk(as_query_param(arg), LAMBDA q : <<q>>)))

\* the verbs without a request body, DELETE forgotten
QueryVerbsWithoutDelete == {"Get", "Head", "Options", "Trace"}

QueryVerbs == {"Get", "Delete", "Head", "Options", "Trace"}

Verbs == {"Get", "Post", "Put", "Delete", "Patch", "Options", "Head", "Trace"}

\* itertools dedup: runs of equal neighbours collapse to one
RECURSIVE Dedup(_)
Dedup(seq) ==
    IF Len(seq) <= 1 THEN seq
    ELSE IF seq[1] = seq[2] THEN Dedup(Tail(seq))
    ELSE <<seq[1]>> \o Dedup(Tail(seq))

IGNORE_TAGS == {Lit_Plugins, Lit_RemotingBindingModule}

\* the tag an operation gets from its path
PathTag(path) ==
    LET pieces == Split(path, SLASH)
    IN  IF Len(pieces) < 2 THEN <<>>
        ELSE IF starts_with(path, Lit_SlashLol) THEN <<Lit_PluginSpace \o pieces[2]>>
        ELSE IF starts_with(path, Lit_SlashPlugin) THEN <<Lit_PluginStaticAssets>>
        ELSE <<pieces[2]>>

\* the tags of the operation of an endpoint
OperationTags(path, tags) ==
    SelectSeq(Dedup(PathTag(path) \o tags), LAMBDA t : t \notin IGNORE_TAGS)

\* the response made from the schema of the return type
ResponseFrom(schema) ==
    IF schema.ok THEN Ok([content |-> Some(schema.v)])
    ELSE IF schema.err \in {"ObjectTypesShouldBeParsed", "VectorTypesShouldBeParsed"}
    THEN schema
    ELSE Ok([content |-> None])

Operation(tags, parameters, request_body, response) ==
    [tags |-> tags, parameters |-> parameters, request_body |-> request_body,
     response |-> response]

\* the query parameters and request body that the arguments behind the
\* n_params path parameters give
RestOf(endpoint, n_params, components, order) ==
    LET non_path_args == Skip(endpoint.arguments, Len(endpoint.path_params))
        behind == Skip(endpoint.arguments, n_params)
    IN  IF Len(non_path_args) > 1
        THEN MapOk(Collect([i \in 1..Len(non_path_args) |-> as_query_param(non_path_args[i])]),
                   LAMBDA queries : [params |-> queries, request_body |-> None])
        ELSE IF endpoint.method.some /\ endpoint.method.value \in QueryVerbs
        THEN MapOk(IF Len(behind) = 0 THEN Ok(<<>>)
                   ELSE QueryParamsOf(behind[1], components, order),
                   LAMBDA queries : [params |-> queries, request_body |-> None])
        ELSE IF n_params < Len(endpoint.arguments)
        THEN MapOk(SchemaFromDataType(endpoint.arguments[n_params + 1].ty),
                   LAMBDA schema : [params |-> <<>>, request_body |-> Some(schema)])
        ELSE Ok([params |-> <<>>, request_body |-> None])

\* Endpoint::operation
operation(endpoint, components, order) ==
    AndThen(Collect([i \in 1..Len(endpoint.path_params) |->
                        path_param_as_path_variant(endpoint, endpoint.path_params[i])]),
            LAMBDA params :
                AndThen(RestOf(endpoint, Len(params), components, order),
                        LAMBDA rest :
                            AndThen(ResponseFrom(SchemaFromDataType(endpoint.return_ty)),
                                    LAMBDA response :
                                        IF ~endpoint.path.some
                                        THEN Err("EndpointPathCannotBeNone")
                                        ELSE Ok(Operation(
                                                 OperationTags(endpoint.path.value,
                                                               endpoint.tags),
                                                 params \o rest.params, rest.request_body,
                                                 response)))))

PropertyCount(resolved) ==
    IF resolved.ok /\ resolved.v.kind = "Object" THEN Len(resolved.v.properties) ELSE 0

\* the number of map entries operation iterates over
FlattenCount(endpoint, components) ==
    LET behind == Skip(endpoint.arguments, Len(endpoint.path_params))
    IN  IF Len(behind) = 1 /\ endpoint.method.some /\ endpoint.method.value \in QueryVerbs
        THEN PropertyCount(AndThen(SchemaFromDataType(behind[1].ty),
                                   LAMBDA schema : Resolved(schema, components)))
        ELSE 0

(***************************************************************************)
(* The document: components, paths, and the tag pass                       *)
(***************************************************************************)
\* HashMap::insert on the component schemas, kept in ascending name order
ComponentsInsert(components, name, schema) ==
    InsertProperty(SelectSeq(components, LAMBDA c : c.name # name), name, schema)

\* one round of resolve_components: r is the schema of the type
AddComponent(components, ty, r) ==
    IF r.ok THEN Ok(ComponentsInsert(components, ty.name, r.v))
    ELSE IF r.err = "PrivateApiTypeNotSupported" THEN Ok(components)
    ELSE r

\* OpenApiSpec::resolve_components from type i on
RECURSIVE ComponentsLoop(_, _, _)
ComponentsLoop(types, i, components) ==
    IF i > Len(types) \/ ~components.ok THEN components
    ELSE ComponentsLoop(types, i + 1,
                        AddComponent(components.v, types[i], SchemaFromType(types[i])))

resolve_components(extended_help) == ComponentsLoop(extended_help.types, 1, Ok(<<>>))

\* PathItem::default()
EmptyPathItem == [verb \in Verbs |-> None]

PathEntry(path, item) == [path |-> path, item |-> item]

ContainsPath(paths, path) == \E i \in 1..Len(paths) : paths[i].path = path

\* self.paths.entry(path).or_default()
PathItemOf(paths, path) ==
    IF ContainsPath(paths, path)
    THEN paths[CHOOSE i \in 1..Len(paths) : paths[i].path = path].item
    ELSE EmptyPathItem

\* the path map with the item of one path replaced, in ascending path order
PathsPut(paths, path, item) ==
    SelectSeq(paths, LAMBDA e : StrLess(e.path, path))
    \o <<PathEntry(path, item)>>
    \o SelectSeq(paths, LAMBDA e : StrLess(path, e.path))

\* the entry of the endpoint's path with the operation in the slot of the
\* endpoint's verb; without a verb the entry is made and left as it is
PutOperation(paths, endpoint, op) ==
    PathsPut(paths, endpoint.path.value,
             IF endpoint.method.some
             THEN [PathItemOf(paths, endpoint.path.value) EXCEPT
                      ![endpoint.method.value] = Some(op)]
             ELSE PathItemOf(paths, endpoint.path.value))

\* OpenApiSpec::resolve_paths from endpoint i on; orders[i] is the order in
\* which operation iterates a property map for endpoint i
RECURSIVE PathsLoop(_, _, _, _, _)
PathsLoop(endpoints, i, components, orders, paths) ==
    IF i > Len(endpoints) \/ ~paths.ok THEN paths
    ELSE PathsLoop(endpoints, i + 1, components, orders,
                   IF ~endpoints[i].path.some THEN paths
                   ELSE MapOk(operation(endpoints[i], components, orders[i]),
                              LAMBDA op : PutOperation(paths.v, endpoints[i], op)))

resolve_paths(extended_help, components, orders) ==
    PathsLoop(extended_help.endpoints, 1, components, orders, Ok(<<>>))

\* PathItem::operations: the verbs in the order the operations are listed
VerbOrder == <<"Get", "Post", "Put", "Delete", "Patch", "Options", "Head", "Trace">>

PresentVerbs(item) == SelectSeq(VerbOrder, LAMBDA verb : item[verb].some)

\* the number of times tag occurs in a tag list
Occurrences(tags, tag) == Cardinality({i \in 1..Len(tags) : tags[i] = tag})

RECURSIVE SumOver(_, _)
SumOver(counts, n) == IF n = 0 THEN 0 ELSE counts[n] + SumOver(counts, n - 1)

\* the occurrences of a tag on the operations of one path item
CountInItem(item, verbs, tag) ==
    SumOver([j \in 1..Len(verbs) |-> Occurrences(item[verbs[j]].value.tags, tag)], Len(verbs))

\* a count of the operations that carry the tag, not of its occurrences
tag_counts_per_operation(paths, tag) ==
    Cardinality({pv \in (1..Len(paths)) \X Verbs :
                    /\ paths[pv[1]].item[pv[2]].some
                    /\ tag \in Range(paths[pv[1]].item[pv[2]].value.tags)})

\* tag_counts[tag] after the first pass of resolve_tags
tag_counts(paths, tag) ==
    SumOver([i \in 1..Len(paths) |->
                CountInItem(paths[i].item, PresentVerbs(paths[i].item), tag)],
            Len(paths))

\* the default tag of an operation: path.split('/').nth(1).unwrap_or("other")
DefaultTag(path) ==
    LET pieces == Split(path, SLASH)
    IN  IF Len(pieces) >= 2 THEN pieces[2] ELSE Lit_other

\* the normalization of the second pass
NormalizeTag(tag) ==
    RemoveFirst(IF starts_with(tag, Lit_PluginSpace) THEN tag ELSE to_lowercase(tag), DOLLAR)

DefaultIfEmpty(filtered_tags, path) ==
    IF filtered_tags = <<>> THEN <<DefaultTag(path)>> ELSE filtered_tags

NormalizeAll(tags) == [i \in 1..Len(tags) |-> NormalizeTag(tags[i])]

\* the tags resolve_tags leaves on one operation
ResolvedTags(paths, path, tags) ==
    NormalizeAll(
        DefaultIfEmpty(
            SelectSeq(tags, LAMBDA inner :
                                tag_counts(paths, inner) > 1 \/ starts_with(inner, Lit_Plugin)),
            path))

\* the paths after the second pass of resolve_tags
TaggedPaths(paths) ==
    [i \in 1..Len(paths) |->
        PathEntry(paths[i].path,
                  [verb \in Verbs |->
                      IF paths[i].item[verb].some
                      THEN Some([paths[i].item[verb].value EXCEPT
                                   !.tags = ResolvedTags(paths, paths[i].path, @)])
                      ELSE None])]

\* final_tags: every tag of every operation
FinalTags(paths) ==
    UNION {UNION {Range(paths[i].item[verb].value.tags) :
                     verb \in {v \in Verbs : paths[i].item[v].some}} :
              i \in 1..Len(paths)}

\* impl PartialOrd for Tag, with unwrap_or(Equal)
TagCmp(a, b) ==
    LET a_is_plugin == starts_with(a, Lit_Plugin)
        b_is_plugin == starts_with(b, Lit_Plugin)
        a_is_lol_plugin == starts_with(a, Lit_PluginLol)
        b_is_lol_plugin == starts_with(b, Lit_PluginLol)
        a_other == a = Lit_other
        b_other == b = Lit_other
    IN  CASE a_is_plugin /\ ~b_is_plugin -> 1
          [] ~a_is_plugin /\ b_is_plugin -> -1
          [] a_is_lol_plugin /\ ~b_is_lol_plugin -> 1
          [] ~a_is_lol_plugin /\ b_is_lol_plugin -> -1
          [] a_other /\ ~b_other -> 1
          [] ~a_other /\ b_other -> -1
          [] a_other /\ b_other -> 0
          [] OTHER -> StrCmp(a, b)

\* sorted_by, a stable sort
RECURSIVE InsertTag(_, _)
InsertTag(sorted, x) ==
    IF Len(sorted) = 0 THEN <<x>>
    ELSE IF TagCmp(sorted[Len(sorted)], x) > 0
    THEN Append(InsertTag(SubSeq(sorted, 1, Len(sorted) - 1), x), sorted[Len(sorted)])
    ELSE Append(sorted, x)

RECURSIVE SortTags(_, _)
SortTags(input, n) ==
    IF n = 0 THEN <<>> ELSE InsertTag(SortTags(input, n - 1), input[n])

\* the sequences a hash set can be iterated as
RECURSIVE SetOrders(_)
SetOrders(set) ==
    IF set = {} THEN {<<>>}
    ELSE UNION {{<<x>> \o rest : rest \in SetOrders(set \ {x})} : x \in set}

(***************************************************************************)
(* Help data the resolvers are run on                                      *)
(***************************************************************************)
Name_id == <<"i", "d">>
Name_plus_id == <<"+", "i", "d">>
Name_q == <<"q">>
Name_b == <<"b">>
Name_x == <<"x">>
Name_y == <<"y">>
Name_f == <<"f">>
Name_zz == <<"z", "z">>
Name_T == <<"T">>
Name_U == <<"U">>
Name_R == <<"R">>
Name_P == <<"P">>
Name_B == <<"B">>
Name_e == <<"e">>
Name_a == <<"a">>
Tag_x == <<"x">>
Tag_foo == <<"f", "o", "o">>
Tag_PluginA == <<"P", "l", "u", "g", "i", "n", "A">>
Url_foo == <<"/", "f", "o", "o">>
Url_lol == <<"/", "l", "o", "l", "-", "a">>
Url_foo_id == <<"/", "f", "o", "o", "/", "{", "i", "d", "}">>

\* an object type with a primitive field and an optional array field
TypeT ==
    Type(Name_T, <<Argument(Name_x, FALSE, DataType(Lit_string, <<>>)),
                   Argument(Name_y, TRUE, DataType(Lit_vector, Lit_int32))>>, <<>>)

\* an enum type
TypeU ==
    Type(Name_U, <<>>, <<HelpValue(Name_b, <<>>, Num(10)), HelpValue(Name_a, <<>>, Num(2))>>)

\* an object type with a field of the named type U
TypeR == Type(Name_R, <<Argument(Name_f, FALSE, DataType(Name_U, <<>>))>>, <<>>)

\* a type with neither fields nor values
TypeP == Type(Name_P, <<>>, <<>>)

\* a type with both fields and values
TypeB ==
    Type(Name_B, <<Argument(Name_x, FALSE, DataType(Lit_string, <<>>))>>,
         <<HelpValue(Name_a, <<>>, Null)>>)

HelpTypes == {TypeT, TypeU, TypeR, TypeP, TypeB}

RECURSIVE SeqsUpTo(_, _)
SeqsUpTo(set, n) ==
    IF n = 0 THEN {<<>>}
    ELSE LET shorter == SeqsUpTo(set, n - 1)
         IN  shorter \cup {Append(q, x) : q \in {t \in shorter : Len(t) = n - 1}, x \in set}

Methods == {None} \cup {Some(verb) : verb \in Verbs}

(***************************************************************************)
(* Endpoint::operation on one endpoint                                     *)
(***************************************************************************)
\* the most arguments of an endpoint
MaxArgs == 3

OpArguments ==
    {Argument(Name_id, FALSE, DataType(Lit_string, <<>>)),
     Argument(Name_q, TRUE, DataType(Name_T, <<>>)),
     Argument(Name_b, FALSE, DataType(Lit_object, <<>>)),
     Argument(Name_y, FALSE, DataType(Lit_vector, Lit_vector))}

OpPathParams == {<<>>, <<Name_id>>, <<Name_plus_id>>, <<Name_id, Name_q>>, <<Name_zz>>}

OpReturns == {DataType(Lit_string, <<>>), DataType(Name_R, <<>>)}

OpComponents == {<<>>, resolve_components([types |-> <<TypeT>>, endpoints |-> <<>>]).v}

OpEndpoints ==
    {Endpoint(Name_e, method, path, path_params, arguments, return_ty, <<>>) :
        method \in Methods, path \in {None, Some(Url_foo_id)},
        path_params \in OpPathParams, arguments \in SeqsUpTo(OpArguments, MaxArgs),
        return_ty \in OpReturns}

NoEndpoint == Endpoint(<<>>, None, None, <<>>, <<>>, DataType(<<>>, <<>>), <<>>)

OpIdle ==
    /\ op_endpoint = NoEndpoint
    /\ spec_components = <<>>
    /\ op_result = Err("-")
    /\ opPc = "off"

InitOp ==
    /\ op_endpoint \in OpEndpoints
    /\ spec_components \in OpComponents
    /\ op_result = Err("-")
    /\ opPc = "call"

\* endpoint.operation(&spec)
OperationCall ==
    /\ opPc = "call"
    /\ \E order \in Perms(FlattenCount(op_endpoint, spec_components)) :
         op_result' = operation(op_endpoint, spec_components, order)
    /\ opPc' = "returned"
    /\ UNCHANGED <<op_endpoint, spec_components>>
    /\ UNCHANGED <<pathVars, patchVars, compileVars, helpVars, enumVars, typeVars, serVars, schemaVars>>

NextOp == OperationCall

(***************************************************************************)
(* PoroSchema::openapi: components, paths, tags                            *)
(***************************************************************************)
\* the most types and the most endpoints of a help set
MaxTypes == 1
MaxEndpoints == 2

HelpEndpoints ==
    {Endpoint(Name_e, method, path, <<>>, ar[1], ar[2], tg) :
        method \in {None, Some("Get"), Some("Post")},
        path \in {None, Some(<<>>), Some(Url_foo), Some(Url_lol)},
        tg \in {<<>>, <<Tag_x, Tag_foo>>, <<Tag_PluginA>>},
        ar \in {<<<<>>, DataType(Lit_string, <<>>)>>,
                <<<<Argument(Name_q, TRUE, DataType(Name_T, <<>>))>>, DataType(Name_R, <<>>)>>}}

CompileIdle ==
    /\ help_set = [types |-> <<>>, endpoints |-> <<>>]
    /\ doc_components = <<>>
    /\ doc_paths = <<>>
    /\ raw_paths = <<>>
    /\ doc_tags = <<>>
    /\ compileErr = "-"
    /\ compilePc = "off"

HelpSets ==
    [types : SeqsUpTo(HelpTypes, MaxTypes), endpoints : SeqsUpTo(HelpEndpoints, MaxEndpoints)]

InitCompile ==
    /\ help_set \in HelpSets
    /\ doc_components = <<>>
    /\ doc_paths = <<>>
    /\ raw_paths = <<>>
    /\ doc_tags = <<>>
    /\ compileErr = "-"
    /\ compilePc = "help"

\* OpenApiSpec::with_components
with_components ==
    /\ compilePc = "help"
    /\ LET r == resolve_components(help_set)
       IN  IF r.ok
           THEN /\ doc_components' = r.v
                /\ compilePc' = "components"
                /\ compileErr' = "-"
           ELSE /\ doc_components' = doc_components
                /\ compilePc' = "failed"
                /\ compileErr' = r.err
    /\ UNCHANGED <<help_set, doc_paths, raw_paths, doc_tags>>
    /\ UNCHANGED <<pathVars, patchVars, opVars, helpVars, enumVars, typeVars, serVars, schemaVars>>

\* the iteration orders one run of resolve_paths can meet
OrdersOf(endpoints, comps) ==
    LET count(i) == IF endpoints[i].path.some THEN FlattenCount(endpoints[i], comps) ELSE 0
    IN  {orders \in [1..Len(endpoints) -> UNION {Perms(count(i)) : i \in 1..Len(endpoints)}] :
            \A i \in 1..Len(endpoints) : orders[i] \in Perms(count(i))}

\* OpenApiSpec::with_paths
with_paths ==
    /\ compilePc = "components"
    /\ \E orders \in OrdersOf(help_set.endpoints, doc_components) :
         LET r == resolve_paths(help_set, doc_components, orders)
         IN  IF r.ok
             THEN /\ doc_paths' = r.v
                  /\ raw_paths' = r.v
                  /\ compilePc' = "paths"
                  /\ compileErr' = "-"
             ELSE /\ UNCHANGED <<doc_paths, raw_paths>>
                  /\ compilePc' = "failed"
                  /\ compileErr' = r.err
    /\ UNCHANGED <<help_set, doc_components, doc_tags>>
    /\ UNCHANGED <<pathVars, patchVars, opVars, helpVars, enumVars, typeVars, serVars, schemaVars>>

\* OpenApiSpec::with_tags
with_tags ==
    /\ compilePc = "paths"
    /\ doc_paths' = TaggedPaths(doc_paths)
    /\ \E input \in SetOrders(FinalTags(doc_paths')) :
         doc_tags' = SortTags(input, Len(input))
    /\ compilePc' = "tags"
    /\ UNCHANGED <<help_set, doc_components, raw_paths, compileErr>>
    /\ UNCHANGED <<pathVars, patchVars, opVars, helpVars, enumVars, typeVars, serVars, schemaVars>>

NextCompile == with_components \/ with_paths \/ with_tags

(***************************************************************************)
(* PoroSchema::extended_help: the patch table on the endpoint JSON values  *)
(***************************************************************************)
Key_name == <<"n", "a", "m", "e">>
Key_method == <<"m", "e", "t", "h", "o", "d">>
Key_path == <<"p", "a", "t", "h">>
Key_tags == <<"t", "a", "g", "s">>
Lit_post == <<"p", "o", "s", "t">>
Lit_riotclient == <<"r", "i", "o", "t", "c", "l", "i", "e", "n", "t">>
Lit_GET == <<"G", "E", "T">>
Url_x == <<"/", "x">>
EP_Help == <<"H", "e", "l", "p">>
EP_Subscribe == <<"S", "u", "b", "s", "c", "r", "i", "b", "e">>
EP_Unsubscribe == <<"U", "n", "s", "u", "b", "s", "c", "r", "i", "b", "e">>
EP_AsyncDelete == <<"A", "s", "y", "n", "c", "D", "e", "l", "e", "t", "e">>
EP_AsyncResult == <<"A", "s", "y", "n", "c", "R", "e", "s", "u", "l", "t">>
EP_AsyncStatus == <<"A", "s", "y", "n", "c", "S", "t", "a", "t", "u", "s">>
EP_Cancel == <<"C", "a", "n", "c", "e", "l">>
EP_Exit == <<"E", "x", "i", "t">>
EP_WebSocketFormat == <<"W", "e", "b", "S", "o", "c", "k", "e", "t", "F", "o", "r", "m", "a", "t">>
EP_LoggingGetEntries == <<"L", "o", "g", "g", "i", "n", "g", "G", "e", "t", "E", "n", "t", "r", "i", "e", "s">>
EP_LoggingMetrics == <<"L", "o", "g", "g", "i", "n", "g", "M", "e", "t", "r", "i", "c", "s">>
EP_LoggingMetricsMetadata == <<"L", "o", "g", "g", "i", "n", "g", "M", "e", "t", "r", "i", "c", "s", "M", "e", "t", "a", "d", "a", "t", "a">>
EP_LoggingStart == <<"L", "o", "g", "g", "i", "n", "g", "S", "t", "a", "r", "t">>
EP_LoggingStop == <<"L", "o", "g", "g", "i", "n", "g", "S", "t", "o", "p">>
EP_GetRiotclientRegionLocale == <<"G", "e", "t", "R", "i", "o", "t", "c", "l", "i", "e", "n", "t", "R", "e", "g", "i", "o", "n", "L", "o", "c", "a", "l", "e">>
EP_GetFoo == <<"G", "e", "t", "F", "o", "o">>

\* one row of the table: the method and path of an endpoint
MethodAndPath(name) ==
    [name |-> name,
     patches |-> <<[path |-> Key_method, value |-> Str(Lit_post)],
                   [path |-> Key_path, value |-> Str(<<SLASH>> \o name)]>>]

\* the patches argument of apply_endpoint_patches! in extended_help
PatchTable ==
    <<MethodAndPath(EP_Help),
      MethodAndPath(EP_Subscribe),
      MethodAndPath(EP_Unsubscribe),
      MethodAndPath(EP_AsyncDelete),
      MethodAndPath(EP_AsyncResult),
      MethodAndPath(EP_AsyncStatus),
      MethodAndPath(EP_Cancel),
      MethodAndPath(EP_Exit),
      MethodAndPath(EP_WebSocketFormat),
      MethodAndPath(EP_LoggingGetEntries),
      MethodAndPath(EP_LoggingMetrics),
      MethodAndPath(EP_LoggingMetricsMetadata),
      MethodAndPath(EP_LoggingStart),
      MethodAndPath(EP_LoggingStop),
      [name |-> EP_GetRiotclientRegionLocale,
       patches |-> <<[path |-> Key_tags, value |-> Arr(<<Str(Lit_riotclient)>>)]>>]>>

\* json.get("name").and_then(|v| v.as_str()): None without a string name
NameOf(json) ==
    IF IsObject(json) /\ ContainsKey(json, Key_name) /\ Get(json, Key_name).t = "str"
    THEN Some(Get(json, Key_name).e)
    ELSE None

\* the patches of one row applied to a JSON value, from patch j on; r is
\* what the patch before returned
RECURSIVE ApplyPatches(_, _, _)
ApplyPatches(r, patches, j) ==
    IF j > Len(patches) \/ r.status # "ok" THEN r
    ELSE ApplyPatches(patch_mut(r.node, patches[j].path, Some(patches[j].value)),
                      patches, j + 1)

\* the rows of the table tried on one JSON value, from row i on; r is what
\* the rows before returned
RECURSIVE ApplyRows(_, _, _)
ApplyRows(r, table, i) ==
    IF i > Len(table) \/ r.status # "ok" THEN r
    ELSE IF ~NameOf(r.node).some THEN PatchAbort(r.node)
    ELSE IF NameOf(r.node).value = table[i].name
    THEN ApplyRows(ApplyPatches(r, table[i].patches, 1), table, i + 1)
    ELSE ApplyRows(r, table, i + 1)

\* the list of JSON values with what the rows made of value k
PutBack(jsons, k, one) == [status |-> one.status, node |-> [jsons EXCEPT ![k] = one.node]]

\* apply_endpoint_patches!: every JSON value in turn, until one fails; r is
\* what the JSON values before gave
RECURSIVE PatchesLoop(_, _, _)
PatchesLoop(r, table, k) ==
    IF k > Len(r.node) \/ r.status # "ok" THEN r
    ELSE PatchesLoop(PutBack(r.node, k, ApplyRows(PatchOk(r.node[k]), table, 1)),
                     table, k + 1)

apply_endpoint_patches(jsons, table) == PatchesLoop(PatchOk(jsons), table, 1)

\* the most endpoints fetched
MaxFetched == 2

\* serde_json::to_value of a fetched endpoint: method is left out when None
EndpointJson(name, method, path) ==
    LET base == Insert(Insert(Insert(Obj(<<>>), Key_name, Str(name)), Key_path, path),
                       Key_tags, Arr(<<>>))
    IN  IF method.some THEN Insert(base, Key_method, Str(method.value)) ELSE base

FetchedEndpoints ==
    {EndpointJson(name, method, path) :
        name \in {EP_Help, EP_Exit, EP_GetRiotclientRegionLocale, EP_GetFoo},
        method \in {None, Some(Lit_GET)},
        path \in {Null, Str(Url_x)}}

HelpIdle ==
    /\ full_endpoints = <<>>
    /\ fetched = <<>>
    /\ helpErr = "-"
    /\ helpPc = "off"

FetchedLists == SeqsUpTo(FetchedEndpoints, MaxFetched)

InitHelp ==
    /\ full_endpoints \in FetchedLists
    /\ fetched = full_endpoints
    /\ helpErr = "-"
    /\ helpPc = "fetched"

\* apply_endpoint_patches!(to: &mut full_endpoints, patches: [...])
ApplyEndpointPatches ==
    /\ helpPc = "fetched"
    /\ LET r == apply_endpoint_patches(full_endpoints, PatchTable)
       IN  /\ full_endpoints' = r.node
           /\ helpErr' = IF r.status = "ok" THEN "-" ELSE r.status
           /\ helpPc' = IF r.status = "ok" THEN "patched" ELSE "failed"
    /\ UNCHANGED fetched
    /\ UNCHANGED <<pathVars, patchVars, opVars, compileVars, enumVars, typeVars, serVars, schemaVars>>

NextHelp == ApplyEndpointPatches

(***************************************************************************)
(* sort_enum_variants, called on a list of variants                        *)
(***************************************************************************)
\* the most variants of a list
MaxVariants == 3

\* the keys of the variants: none, both booleans, two numbers whose order
\* by value and by text differ, two strings
EnumKeys ==
    {EnumKey("None", 0, <<>>), EnumKey("Bool", 0, <<>>), EnumKey("Bool", 1, <<>>),
     EnumKey("Number", 2, <<>>), EnumKey("Number", 10, <<>>),
     EnumKey("String", 0, Name_a), EnumKey("String", 0, Name_b)}

EnumNames == {None, Some(Name_x), Some(Name_y)}

EnumVariants == {EnumVariant(key, name, None) : key \in EnumKeys, name \in EnumNames}

EnumIdle ==
    /\ enum_input = <<>>
    /\ enum_sorted = <<>>
    /\ enumPc = "off"

InitEnum ==
    /\ enum_input \in SeqsUpTo(EnumVariants, MaxVariants)
    /\ enum_sorted = <<>>
    /\ enumPc = "input"

\* sort_enum_variants(&mut variants)
SortEnumVariants ==
    /\ enumPc = "input"
    /\ enum_sorted' = sort_enum_variants(enum_input)
    /\ enumPc' = "sorted"
    /\ UNCHANGED enum_input
    /\ UNCHANGED <<pathVars, patchVars, opVars, compileVars, helpVars, typeVars, serVars, schemaVars>>

NextEnum == SortEnumVariants

(***************************************************************************)
(* SchemaObject::try_from(&DataType), called on one data type              *)
(***************************************************************************)
Name_slash_T == <<"/", "T">>

\* the names try_parse_item_type tells apart, and three names of its last
\* arm: T, /T and T already written as a reference
ReservedNames ==
    {Lit_array, Lit_vector, Lit_map, Lit_object, Lit_string, Lit_bool, Lit_boolean, <<>>,
     Lit_float, Lit_double} \cup IntegerFormats

TypeNames == ReservedNames \cup {Name_T, Name_slash_T, Lit_SchemasPrefix \o Name_T}

TypeIdle ==
    /\ type_input = DataType(<<>>, <<>>)
    /\ type_result = Err("-")
    /\ typePc = "off"

InitType ==
    /\ type_input \in {DataType(ty, element_type) : ty \in TypeNames, element_type \in TypeNames}
    /\ type_result = Err("-")
    /\ typePc = "input"

\* SchemaObject::try_from(&data_type)
TryFromDataType ==
    /\ typePc = "input"
    /\ type_result' = SchemaFromDataType(type_input)
    /\ typePc' = "resolved"
    /\ UNCHANGED type_input
    /\ UNCHANGED <<pathVars, patchVars, opVars, compileVars, helpVars, enumVars, serVars, schemaVars>>

NextType == TryFromDataType

(***************************************************************************)
(* The ordered serializers of serde/ser.rs                                 *)
(***************************************************************************)
\* the most entries of a map and the most strings of a list
MaxEntries == 3

Name_ab == <<"a", "b">>

MapEntry(key, value) == [key |-> key, value |-> value]

\* the mutation of BTreeInsert: the entry is put at the end
BTreeInsertLast(sorted, entry) == Append(sorted, entry)

\* BTreeMap::insert of a key the map does not hold: the entries stay in
\* ascending key order
RECURSIVE BTreeInsert(_, _)
BTreeInsert(sorted, entry) ==
    IF Len(sorted) = 0 THEN <<entry>>
    ELSE IF StrLess(entry.key, sorted[Len(sorted)].key)
    THEN Append(BTreeInsert(SubSeq(sorted, 1, Len(sorted) - 1), entry), sorted[Len(sorted)])
    ELSE Append(sorted, entry)

\* BTreeMap::from_iter(value.iter()) over the first n entries met
RECURSIVE BTreeFromIter(_, _)
BTreeFromIter(iter, n) ==
    IF n = 0 THEN <<>> ELSE BTreeInsert(BTreeFromIter(iter, n - 1), iter[n])

\* sorted.sort() on strings: a stable sort in byte order
RECURSIVE InsertString(_, _)
InsertString(sorted, x) ==
    IF Len(sorted) = 0 THEN <<x>>
    ELSE IF StrLess(x, sorted[Len(sorted)])
    THEN Append(InsertString(SubSeq(sorted, 1, Len(sorted) - 1), x), sorted[Len(sorted)])
    ELSE Append(sorted, x)

RECURSIVE SortStrings(_, _)
SortStrings(value, n) ==
    IF n = 0 THEN <<>> ELSE InsertString(SortStrings(value, n - 1), value[n])

\* serde_json text of a string without characters to escape
StringText(str) == <<QUOTE>> \o str \o <<QUOTE>>

\* the texts of the items of a JSON array or object, comma-separated
RECURSIVE JoinComma(_, _)
JoinComma(texts, n) ==
    IF n = 0 THEN <<>>
    ELSE IF n = 1 THEN texts[1]
    ELSE JoinComma(texts, n - 1) \o <<",">> \o texts[n]

\* serde_json text of a map of i32 values, the entries in the order given
MapText(entries) ==
    <<"{">> \o JoinComma([i \in 1..Len(entries) |->
                            StringText(entries[i].key) \o <<":">> \o FormatUsize(entries[i].value)],
                         Len(entries)) \o <<"}">>

\* serde_json text of a sequence of strings
ListText(strings) ==
    <<"[">> \o JoinComma([i \in 1..Len(strings) |-> StringText(strings[i])], Len(strings))
            \o <<"]">>

\* serialize_as_btree_map: value_iter is the hash map as value.iter() yields it
serialize_as_btree_map(value_iter) == MapText(BTreeFromIter(value_iter, Len(value_iter)))

\* serialize_strings_sorted
serialize_strings_sorted(value) == ListText(SortStrings(value, Len(value)))

SerKeys == {Name_a, Name_b, Name_B, Name_ab}

\* hash maps of at most MaxEntries entries, in every iteration order
SerMaps ==
    {entries \in SeqsUpTo({MapEntry(key, value) : key \in SerKeys, value \in {1, 2}}, MaxEntries) :
        \A i, j \in 1..Len(entries) : entries[i].key = entries[j].key => i = j}

SerIdle ==
    /\ ser_map = <<>>
    /\ ser_strings = <<>>
    /\ serialized = <<>>
    /\ serPc = "off"

InitSer ==
    /\ ser_map \in SerMaps
    /\ ser_strings \in SeqsUpTo(SerKeys, MaxEntries)
    /\ serialized = <<>>
    /\ serPc = "input"

\* serde_json::to_string of a field with serialize_with = "serialize_as_btree_map"
SerializeAsBtreeMap ==
    /\ serPc = "input"
    /\ serialized' = serialize_as_btree_map(ser_map)
    /\ serPc' = "map"
    /\ UNCHANGED <<ser_map, ser_strings>>
    /\ UNCHANGED <<pathVars, patchVars, opVars, compileVars, helpVars, enumVars, typeVars, schemaVars>>

\* serde_json::to_string of a field with serialize_with = "serialize_strings_sorted"
SerializeStringsSorted ==
    /\ serPc = "input"
    /\ serialized' = serialize_strings_sorted(ser_strings)
    /\ serPc' = "strings"
    /\ UNCHANGED <<ser_map, ser_strings>>
    /\ UNCHANGED <<pathVars, patchVars, opVars, compileVars, helpVars, enumVars, typeVars, schemaVars>>

NextSer == SerializeAsBtreeMap \/ SerializeStringsSorted

(***************************************************************************)
(* Serialize and Deserialize for StringSchema and EnumVariant              *)
(***************************************************************************)
\* the most variants of a schema
MaxSchemaVariants == 2

Key_enum == <<"e", "n", "u", "m">>
Key_x_enum_description ==
    <<"x", "-", "e", "n", "u", "m", "-", "d", "e", "s", "c", "r", "i", "p", "t", "i", "o", "n">>
Lit_true == <<"t", "r", "u", "e">>
Lit_false == <<"f", "a", "l", "s", "e">>

\* Serialize for EnumVariant: the name when there is one, else the key;
\* Number::as_u64 fails on a negative number
SerializeVariant(variant) ==
    IF variant.name.some THEN Ok(Str(variant.name.value))
    ELSE CASE variant.key.k = "None" -> Ok(Null)
           [] variant.key.k = "String" -> Ok(Str(variant.key.s))
           [] variant.key.k = "Number" ->
                IF variant.key.n >= 0 THEN Ok(Num(variant.key.n)) ELSE Err("custom")
           [] OTHER -> Ok(Bool(variant.key.n = 1))

\* Serialize for StringSchema: no field for an empty list, else the list of
\* variants under "enum" and the same list again under "x-enum-description"
SerializeStringSchema(variants) ==
    IF variants = <<>> THEN Ok(Obj(<<>>))
    ELSE MapOk(Collect([i \in 1..Len(variants) |-> SerializeVariant(variants[i])]),
               LAMBDA written :
                   Obj(<<Entry(Key_enum, Arr(written)),
                         Entry(Key_x_enum_description, Arr(written))>>))

\* Deserialize for EnumVariant
DeserializeVariant(raw_variant) ==
    CASE raw_variant.t = "null" -> Ok(EnumVariant(EnumKey("None", 0, <<>>), None, None))
      [] raw_variant.t = "bool" ->
           Ok(EnumVariant(EnumKey("Bool", raw_variant.n, <<>>),
                          Some(IF raw_variant.n = 1 THEN Lit_true ELSE Lit_false), None))
      [] raw_variant.t = "num" ->
           Ok(EnumVariant(EnumKey("Number", raw_variant.n, <<>>),
                          Some(FormatUsize(raw_variant.n)), None))
      [] raw_variant.t = "str" ->
           Ok(EnumVariant(EnumKey("String", 0, raw_variant.e), Some(raw_variant.e), None))
      [] OTHER -> Err("custom")

\* String::deserialize on a JSON value
DeserializeString(value) == IF value.t = "str" THEN Ok(value.e) ELSE Err("invalid type")

\* a field of RawStringSchema that is a list: #[serde(default)] without the
\* key, else every element read with F
FieldOr(json, key, F(_)) ==
    IF ~ContainsKey(json, key) THEN Ok(<<>>)
    ELSE IF ~IsArray(Get(json, key)) THEN Err("invalid type")
    ELSE Collect([i \in 1..Len(Get(json, key).e) |-> F(Get(json, key).e[i])])

\* the loop over x_enum_description: the description of variant i is
\* description i, as far as there is one
WithDescriptions(variants, x_enum_description) ==
    [i \in 1..Len(variants) |->
        IF i <= Len(x_enum_description)
        THEN [variants[i] EXCEPT !.description = Some(x_enum_description[i])]
        ELSE variants[i]]

\* Deserialize for StringSchema
DeserializeStringSchema(json) ==
    AndThen(FieldOr(json, Key_enum, DeserializeVariant),
            LAMBDA variants :
                MapOk(FieldOr(json, Key_x_enum_description, DeserializeString),
                      LAMBDA x_enum_description :
                          WithDescriptions(variants, x_enum_description)))

\* the keys, names and descriptions of the variants: a key of every kind,
\* one number that is negative, a name and a description equal to the key a
SchemaKeys ==
    {EnumKey("None", 0, <<>>), EnumKey("Bool", 1, <<>>), EnumKey("Number", 2, <<>>),
     EnumKey("Number", -1, <<>>), EnumKey("String", 0, Name_a)}

SchemaVariants ==
    {EnumVariant(key, name, description) :
        key \in SchemaKeys, name \in {None, Some(Name_a), Some(Name_x)},
        description \in {None, Some(Name_a)}}

SchemaIdle ==
    /\ schema_variants = <<>>
    /\ schema_json = Err("-")
    /\ schema_read = Err("-")
    /\ schemaPc = "off"

InitSchema ==
    /\ schema_variants \in SeqsUpTo(SchemaVariants, MaxSchemaVariants)
    /\ schema_json = Err("-")
    /\ schema_read = Err("-")
    /\ schemaPc = "schema"

\* serde_json::to_value(&schema)
ToValue ==
    /\ schemaPc = "schema"
    /\ schema_json' = SerializeStringSchema(schema_variants)
    /\ schemaPc' = IF schema_json'.ok THEN "written" ELSE "failed"
    /\ UNCHANGED <<schema_variants, schema_read>>
    /\ UNCHANGED <<pathVars, patchVars, opVars, compileVars, helpVars, enumVars, typeVars, serVars>>

\* serde_json::from_value::<StringSchema>(json)
FromValue ==
    /\ schemaPc = "written"
    /\ schema_read' = DeserializeStringSchema(schema_json.v)
    /\ schemaPc' = "read"
    /\ UNCHANGED <<schema_variants, schema_json>>
    /\ UNCHANGED <<pathVars, patchVars, opVars, compileVars, helpVars, enumVars, typeVars, serVars>>

NextSchema == ToValue \/ FromValue

InitSpecPath == InitPath /\ PatchIdle /\ OpIdle /\ CompileIdle /\ HelpIdle
    /\ EnumIdle /\ TypeIdle /\ SerIdle /\ SchemaIdle

SpecPath == InitSpecPath /\ [][NextPath]_vars

InitSpecPatch == InitPatch /\ PathIdle /\ OpIdle /\ CompileIdle /\ HelpIdle
    /\ EnumIdle /\ TypeIdle /\ SerIdle /\ SchemaIdle

SpecPatch == InitSpecPatch /\ [][NextPatch]_vars

InitSpecOperation == InitOp /\ PathIdle /\ PatchIdle /\ CompileIdle /\ HelpIdle
    /\ EnumIdle /\ TypeIdle /\ SerIdle /\ SchemaIdle

SpecOperation == InitSpecOperation /\ [][NextOp]_vars

InitSpecCompile == InitCompile /\ PathIdle /\ PatchIdle /\ OpIdle /\ HelpIdle
    /\ EnumIdle /\ TypeIdle /\ SerIdle /\ SchemaIdle

SpecCompile == InitSpecCompile /\ [][NextCompile]_vars

InitSpecHelp == InitHelp /\ PathIdle /\ PatchIdle /\ OpIdle /\ CompileIdle
    /\ EnumIdle /\ TypeIdle /\ SerIdle /\ SchemaIdle

SpecHelp == InitSpecHelp /\ [][NextHelp]_vars

InitSpecEnum ==
    /\ InitEnum /\ PathIdle /\ PatchIdle /\ OpIdle /\ CompileIdle /\ HelpIdle
    /\ TypeIdle /\ SerIdle /\ SchemaIdle

SpecEnum == InitSpecEnum /\ [][NextEnum]_vars

InitSpecType ==
    /\ InitType /\ PathIdle /\ PatchIdle /\ OpIdle /\ CompileIdle /\ HelpIdle
    /\ EnumIdle /\ SerIdle /\ SchemaIdle

SpecType == InitSpecType /\ [][NextType]_vars

InitSpecSer ==
    /\ InitSer /\ PathIdle /\ PatchIdle /\ OpIdle /\ CompileIdle /\ HelpIdle
    /\ EnumIdle /\ TypeIdle /\ SchemaIdle

SpecSer == InitSpecSer /\ [][NextSer]_vars

InitSpecSchema ==
    /\ InitSchema /\ PathIdle /\ PatchIdle /\ OpIdle /\ CompileIdle /\ HelpIdle
    /\ EnumIdle /\ TypeIdle /\ SerIdle

SpecSchema == InitSpecSchema /\ [][NextSchema]_vars

(***************************************************************************)
(* Properties of the path language                                         *)
(***************************************************************************)
IsQuotedSegment(seg) == StartsWithQuote(seg) /\ EndsWithQuote(seg)

IsNaturalLiteral(seg) == Len(seg) > 0 /\ \A i \in 1..Len(seg) : IsDigit(seg[i])

\* the token the path grammar assigns to an unquoted segment
ExpectedToken(seg) ==
    IF seg = <<STAR>> THEN Wildcard("Once")
    ELSE IF seg = <<STAR, STAR>> THEN Wildcard("UntilNext")
    ELSE IF IsNaturalLiteral(seg) THEN Index(DecimalValue(seg))
    ELSE Property(seg)

\* C5: to_string of the token sequence of an expression is the expression
\* itself, quoted segments included.
C5_DisplayRoundTrip == shown # <<>> => shown[1] = expr

\* C6: tokenize gives one token per '.'-separated segment, in order; an
\* unquoted segment gives Once for `*`, UntilNext for `**`, Index(n) for a
\* natural number n and Property(s) otherwise; the iterator yields exactly
\* these tokens in order and then ends.  (The only expression that gives no
\* token sequence has a segment made of one double quote, which is quoted.)
C6_TokenPerSegment ==
    LET segs == SplitDot(expr)
    IN  /\ pathPc = "iter" =>
            /\ Len(tokens) = Len(segs)
            /\ \A i \in 1..Len(segs) :
                  ~IsQuotedSegment(segs[i]) => tokens[i] = ExpectedToken(segs[i])
            /\ index <= Len(tokens)
            /\ yielded = SubSeq(tokens, 1, index)
            /\ ended => yielded = tokens
        /\ pathPc = "aborted" => \E i \in 1..Len(segs) : segs[i] = <<QUOTE>>

\* the iterator ran to its end over "a.1.*": a property, an index, a wildcard
C6_Witness ==
    /\ expr = <<"a", DOT, "1", DOT, STAR>>
    /\ pathPc = "iter"
    /\ ended
    /\ yielded = <<Property(<<"a">>), Index(1), Wildcard("Once")>>

(***************************************************************************)
(* Properties of patch_mut and navigate                                    *)
(***************************************************************************)
\* the node of a document at a location that exists in it
RECURSIVE At(_, _)
At(node, loc) ==
    IF Len(loc) = 0 THEN node
    ELSE At(IF loc[1].idx >= 0 THEN node.e[loc[1].idx + 1] ELSE Get(node, loc[1].key),
            Tail(loc))

\* the locations of all nodes of a document, the root included
RECURSIVE AllLocs(_)
AllLocs(node) ==
    LET kids == Children(node)
    IN  {<<>>} \cup UNION {{<<kids[j].step>> \o l : l \in AllLocs(kids[j].v)} :
                              j \in 1..Len(kids)}

IsPrefix(p, l) == Len(p) <= Len(l) /\ SubSeq(l, 1, Len(p)) = p

\* a node without its children: its kind and, for a scalar, its value
Shallow(node) == [t |-> node.t, n |-> node.n]

CallTokens == tokenize(call.path).value

HasWildcard(toks) == \E i \in 1..Len(toks) : toks[i].kind = "Wildcard"

\* the nodes the last patch wrote: no starting document holds the value written
Written == {l \in AllLocs(doc) : call.value.some /\ At(doc, l) = call.value.value}

\* C1: for a path without wildcard and any value argument, patching twice
\* gives the document that patching once gives.
C1_PatchIdempotent ==
    (patchPc = "repeated" /\ ~HasWildcard(CallTokens)) => doc = before

\* C1 as amended: the same, for a value that is set, or a removal whose
\* last token is a property name.
C1_PatchIdempotentAmended ==
    (/\ patchPc = "repeated"
     /\ ~HasWildcard(CallTokens)
     /\ call.value.some \/ CallTokens[Len(CallTokens)].kind = "Property")
    => doc = before

\* "a.k" was set twice on a document without "a": the first call created
\* both levels
C1_Witness ==
    /\ patchPc = "repeated"
    /\ call.path = JoinDot(<<KeyA, KeyK>>)
    /\ call.value = Some(Num(2))
    /\ outcome.status = "ok"
    /\ doc = Obj(<<Entry(KeyA, Obj(<<Entry(KeyK, Num(2))>>))>>)

IsDeepLiteralPath(toks) ==
    /\ Len(toks) = 2
    /\ toks[1] = Wildcard("UntilNext")
    /\ toks[2].kind # "Wildcard"

\* C2: for a path `**` followed by a literal, the nodes a successful
\* patch_mut(path, Some(v)) overwrites are the nodes navigate(path, true)
\* returns on the same document.
C2_WriteScopeIsReadScope ==
    (/\ patchPc = "patched"
     /\ outcome.status = "ok"
     /\ call.value.some
     /\ IsDeepLiteralPath(CallTokens))
    => Written = Range(navigate(before, <<>>, call.path, TRUE).result)

\* the values under key k of the objects of a document at any depth, in
\* document order: an entry before what is inside it, entries in order
RECURSIVE UnderKey(_, _, _)
RECURSIVE UnderKeyEach(_, _, _, _)
UnderKeyEach(kids, j, loc, k) ==
    IF j > Len(kids) THEN <<>>
    ELSE (IF kids[j].step = KeyStep(k) THEN <<Append(loc, kids[j].step)>> ELSE <<>>)
         \o UnderKey(kids[j].v, Append(loc, kids[j].step), k)
         \o UnderKeyEach(kids, j + 1, loc, k)

UnderKey(node, loc, k) == UnderKeyEach(Children(node), 1, loc, k)

\* C3: navigate("**.k", true) succeeds and returns exactly the values under
\* key k of objects at any depth, the root object included, each once, in
\* document order.
C3_DeepKeyEachOnceInOrder ==
    (/\ patchPc = "read"
     /\ call.in_wild
     /\ IsDeepLiteralPath(CallTokens)
     /\ CallTokens[2].kind = "Property")
    => /\ outcome.status = "ok"
       /\ outcome.result = UnderKey(doc, <<>>, CallTokens[2].name)

\* the location a prefix of property and index tokens leads to, if it exists
RECURSIVE PrefixLoc(_, _, _)
PrefixLoc(node, toks, i) ==
    IF i > Len(toks) THEN Some(<<>>)
    ELSE LET t == toks[i]
             step == IF t.kind = "Property" THEN KeyStep(t.name) ELSE IdxStep(t.index)
             here == CASE t.kind = "Property" -> IsObject(node) /\ ContainsKey(node, t.name)
                       [] t.kind = "Index" -> IsArray(node) /\ t.index < Len(node.e)
                       [] OTHER -> FALSE
         IN  IF ~here THEN None
             ELSE LET rest == PrefixLoc(At(node, <<step>>), toks, i + 1)
                  IN  IF rest.some THEN Some(<<step>> \o rest.value) ELSE None

\* the call is patch_mut("p.*.k", Some(v)): p a prefix of property and
\* index tokens (maybe empty), k a property name written without quotes
IsFanoutKeyCall ==
    /\ call.op = "patch_mut"
    /\ call.value.some
    /\ LET toks == CallTokens
           n == Len(toks)
       IN  /\ n >= 2
           /\ toks[n - 1] = Wildcard("Once")
           /\ toks[n].kind = "Property"
           /\ ~IsQuotedSegment(SplitDot(call.path)[n])
           /\ \A i \in 1..(n - 2) : toks[i].kind # "Wildcard"

FanoutPrefix == PrefixLoc(before, SubSeq(CallTokens, 1, Len(CallTokens) - 2), 1)

FanoutTargets ==
    LET kids == Children(At(before, FanoutPrefix.value))
    IN  {FanoutPrefix.value \o <<kids[j].step, KeyStep(CallTokens[Len(CallTokens)].name)>> :
            j \in 1..Len(kids)}

OutsideTargets(node) ==
    {l \in AllLocs(node) : \A t \in FanoutTargets : ~IsPrefix(t, l)}

Remaining(ep) == Skip(ep.arguments, Len(ep.path_params))

QueryParams(op) == SelectSeq(op.parameters, LAMBDA param : param.in = "query")

\* C7: for an endpoint with a verb and a path that resolves, the operation
\* has a request body iff exactly one argument remains behind the path
\* parameters and the verb is not GET, DELETE, HEAD, OPTIONS or TRACE; when
\* two or more remain, each is one query parameter, required iff the
\* argument is not optional, and there is no request body.
C7_QueryVersusBody ==
    (opPc = "returned" /\ op_result.ok /\ op_endpoint.method.some /\ op_endpoint.path.some)
    => LET op == op_result.v
           remaining == Remaining(op_endpoint)
           verb == op_endpoint.method.value
       IN  /\ op.request_body.some
                <=> (Len(remaining) = 1
                     /\ verb \notin {"Get", "Delete", "Head", "Options", "Trace"})
           /\ Len(remaining) >= 2
                => /\ ~op.request_body.some
                   /\ Len(QueryParams(op)) = Len(remaining)
                   /\ \A i \in 1..Len(remaining) :
                        /\ QueryParams(op)[i].name = remaining[i].name
                        /\ QueryParams(op)[i].is_required = ~remaining[i].is_optional

\* POST /foo/{id} with arguments id and q: q is the request body
C7_Witness ==
    /\ opPc = "returned"
    /\ op_result.ok
    /\ op_endpoint.method = Some("Post")
    /\ op_endpoint.path_params = <<Name_id>>
    /\ Len(op_endpoint.arguments) = 2
    /\ op_endpoint.arguments[2].name = Name_q
    /\ op_result.v.request_body = Some(component_ref(Name_T))
    /\ QueryParams(op_result.v) = <<>>

(***************************************************************************)
(* Properties of the compiled document                                     *)
(***************************************************************************)
\* the operations of a path map: (position of the path, verb)
OperationsOf(pths) ==
    {pv \in (1..Len(pths)) \X Verbs : pths[pv[1]].item[pv[2]].some}

TagsAt(pths, pv) == pths[pv[1]].item[pv[2]].value.tags

\* the number of operations whose tag list holds the tag
OperationsWith(pths, tag) ==
    Cardinality({pv \in OperationsOf(pths) : tag \in Range(TagsAt(pths, pv))})

\* the number of places, over all tag lists, where the tag stands
PlacesOf(pths, tag) ==
    Cardinality(UNION {{<<pv, j>> : j \in {j \in 1..Len(TagsAt(pths, pv)) :
                                             TagsAt(pths, pv)[j] = tag}} :
                       pv \in OperationsOf(pths)})

\* C8: after the tag pass, a tag that was on exactly one operation and has
\* no Plugin prefix is no longer on that operation, and a tag with a Plugin
\* prefix is still on its operation, in its normalized form.
C8_UniqueTagDropped ==
    compilePc = "tags"
    => \A pv \in OperationsOf(raw_paths) : \A t \in Range(TagsAt(raw_paths, pv)) :
         /\ (OperationsWith(raw_paths, t) = 1 /\ ~starts_with(t, Lit_Plugin))
              => t \notin Range(TagsAt(doc_paths, pv))
         /\ starts_with(t, Lit_Plugin)
              => NormalizeTag(t) \in Range(TagsAt(doc_paths, pv))

\* C8 as amended: the tags of an operation after the pass are its tags that
\* stand in more than one place over all tag lists or start with "Plugin",
\* in their order, each lowercased unless it starts with "Plugin " and
\* without its first `$`; an operation that keeps none has the default of
\* its path alone, normalized the same way.
C8_TagFilterAmended ==
    compilePc = "tags"
    => \A pv \in OperationsOf(raw_paths) :
         LET kept == SelectSeq(TagsAt(raw_paths, pv),
                               LAMBDA t : PlacesOf(raw_paths, t) > 1
                                          \/ starts_with(t, Lit_Plugin))
             after == TagsAt(doc_paths, pv)
             segments == Split(raw_paths[pv[1]].path, SLASH)
         IN  IF kept = <<>>
             THEN after = <<NormalizeTag(IF Len(segments) >= 2 THEN segments[2]
                                          ELSE Lit_other)>>
             ELSE /\ Len(after) = Len(kept)
                  /\ \A j \in 1..Len(kept) : after[j] = NormalizeTag(kept[j])

\* one GET endpoint with the empty path and the tags x, foo: both tags are
\* dropped and the operation is left with "other"
C8_Witness ==
    /\ compilePc = "tags"
    /\ Len(help_set.endpoints) = 1
    /\ help_set.endpoints[1].tags = <<Tag_x, Tag_foo>>
    /\ Len(raw_paths) = 1
    /\ raw_paths[1].item["Get"].some
    /\ raw_paths[1].item["Get"].value.tags = <<Tag_x, Tag_foo>>
    /\ doc_paths[1].item["Get"].value.tags = <<Lit_other>>

\* the targets of the Ref schemas inside a schema
RECURSIVE RefsIn(_)
RefsIn(schema) ==
    CASE schema.kind = "Ref" -> {schema.ref_}
      [] schema.kind = "Array" -> RefsIn(schema.items)
      [] schema.kind = "Object" ->
            UNION {RefsIn(schema.properties[i].schema) : i \in 1..Len(schema.properties)}
            \cup (IF schema.additional_properties.ap = "schema"
                  THEN RefsIn(schema.additional_properties.schema) ELSE {})
      [] OTHER -> {}

OptionRefs(option) == IF option.some THEN RefsIn(option.value) ELSE {}

\* the targets of the Ref schemas of an operation: parameters, request
\* body, response
RefsOfOperation(op) ==
    UNION {RefsIn(op.parameters[i].schema) : i \in 1..Len(op.parameters)}
    \cup OptionRefs(op.request_body)
    \cup OptionRefs(op.response.content)

RefsOfDocument ==
    UNION {RefsIn(doc_components[i].schema) : i \in 1..Len(doc_components)}
    \cup UNION {RefsOfOperation(doc_paths[pv[1]].item[pv[2]].value) :
                   pv \in OperationsOf(doc_paths)}

ComponentTargets ==
    {Lit_SchemasPrefix \o doc_components[i].name : i \in 1..Len(doc_components)}

\* C9: in a compiled document every Ref inside the component schemas or
\* the paths names a key of the component schemas.
C9_RefIntegrity ==
    compilePc = "tags" => RefsOfDocument \subseteq ComponentTargets

(***************************************************************************)
(* Properties of the patch table                                           *)
(***************************************************************************)
TableNames == {PatchTable[i].name : i \in 1..Len(PatchTable)}

FetchedNames == {NameOf(fetched[k]).value : k \in 1..Len(fetched)}

\* C10: when the fetched endpoint list has no endpoint named in the patch
\* table, applying the table returns an error.
C10_MissingEndpointFails ==
    (helpPc \in {"patched", "failed"} /\ FetchedNames \cap TableNames = {})
    => helpPc = "failed"

(***************************************************************************)
(* Properties of the path pass                                             *)
(***************************************************************************)
\* C11: building the paths of the document from a help set that holds an
\* endpoint without a path fails with an error: no run of resolve_paths
\* over such a help set ends with a path map.
C11_MissingPathIsError ==
    compilePc \in {"paths", "tags"}
    => \A i \in 1..Len(help_set.endpoints) : help_set.endpoints[i].path.some

(***************************************************************************)
(* Properties of the tag list                                              *)
(***************************************************************************)
IsPluginTag(tag) == starts_with(tag, Lit_Plugin)

IsLolPluginTag(tag) == starts_with(tag, Lit_PluginLol)

\* C12: the tag list of the document after the tag pass is in the custom
\* order: every non-Plugin tag before every Plugin tag, among the Plugin
\* tags every non-lol plugin before every lol plugin, "other" the last
\* element whenever it is in the list, and otherwise ascending by name.
C12_TagListInCustomOrder ==
    compilePc = "tags"
    => /\ \A i, j \in 1..Len(doc_tags) :
            i < j
            => /\ ~(IsPluginTag(doc_tags[i]) /\ ~IsPluginTag(doc_tags[j]))
               /\ ~(IsLolPluginTag(doc_tags[i]) /\ ~IsLolPluginTag(doc_tags[j]))
               /\ (/\ IsPluginTag(doc_tags[i]) = IsPluginTag(doc_tags[j])
                   /\ IsLolPluginTag(doc_tags[i]) = IsLolPluginTag(doc_tags[j])
                   /\ doc_tags[i] # Lit_other
                   /\ doc_tags[j] # Lit_other)
                  => StrLess(doc_tags[i], doc_tags[j])
       /\ (\E i \in 1..Len(doc_tags) : doc_tags[i] = Lit_other)
            => doc_tags[Len(doc_tags)] = Lit_other

(***************************************************************************)
(* Properties of sort_enum_variants                                        *)
(***************************************************************************)
CountOf(seq, x) == Cardinality({i \in 1..Len(seq) : seq[i] = x})

IsPermutation(a, b) ==
    /\ Len(a) = Len(b)
    /\ \A i \in 1..Len(a) : CountOf(a, a[i]) = CountOf(b, a[i])

KindRank(key) ==
    CASE key.k = "None" -> 0
      [] key.k = "Bool" -> 1
      [] key.k = "Number" -> 2
      [] key.k = "String" -> 3

\* a key is below another: by kind, then false before true, numbers by
\* value (or by their decimal text), strings alphabetically
KeyBelow(a, b, numbers_as_text) ==
    \/ KindRank(a) < KindRank(b)
    \/ /\ a.k = b.k
       /\ CASE a.k = "Bool" -> a.n < b.n
            [] a.k = "Number" -> IF numbers_as_text
                                 THEN StrLess(FormatUsize(a.n), FormatUsize(b.n))
                                 ELSE a.n < b.n
            [] a.k = "String" -> StrLess(a.s, b.s)
            [] OTHER -> FALSE

\* a display name is below another: a missing name first
NameBelow(a, b) ==
    \/ ~a.some /\ b.some
    \/ a.some /\ b.some /\ StrLess(a.value, b.value)

AnyKeyNone == \E i \in 1..Len(enum_input) : enum_input[i].key.k = "None"

\* what the list is sorted by: the names if some key is None, else the keys
SortKey(variant) == IF AnyKeyNone THEN variant.name ELSE variant.key

SortKeyBelow(a, b, numbers_as_text) ==
    IF AnyKeyNone THEN NameBelow(a.name, b.name)
    ELSE KeyBelow(a.key, b.key, numbers_as_text)

WithSortKey(seq, k) == SelectSeq(seq, LAMBDA variant : SortKey(variant) = k)

EnumSorted(numbers_as_text) ==
    enumPc = "sorted"
    => /\ IsPermutation(enum_input, enum_sorted)
       /\ \A i, j \in 1..Len(enum_sorted) :
            i < j => ~SortKeyBelow(enum_sorted[j], enum_sorted[i], numbers_as_text)
       /\ \A i \in 1..Len(enum_input) :
            WithSortKey(enum_sorted, SortKey(enum_input[i]))
                = WithSortKey(enum_input, SortKey(enum_input[i]))

\* C13: sort_enum_variants returns a permutation of its input; with a key
\* None in the list it is ascending by display name, a missing name first,
\* otherwise ascending by key (None < Bool < Number < String, numbers by
\* value); variants that compare equal keep their input order.
C13_SortedByNameOrKey == EnumSorted(FALSE)

\* the same with two numbers compared by their decimal text, as
\* EnumKey::partial_cmp compares them
EnumSortedWithNumbersAsText == EnumSorted(TRUE)

(***************************************************************************)
(* Properties of the element type resolution                               *)
(***************************************************************************)
NamedTypes == TypeNames \ ReservedNames

\* the schema a primitive or named element type stands for
ExpectedItem(name) ==
    CASE name = Lit_string -> StringSchema(<<>>)
      [] name \in {Lit_bool, Lit_boolean} -> BooleanSchema
      [] name \in {Lit_float, Lit_double} -> NumberSchema(name)
      [] name \in IntegerFormats -> IntegerSchema(name)
      [] OTHER -> RefSchema(Lit_SchemasPrefix \o name)

PrimitiveNames == {Lit_string, Lit_bool, Lit_boolean, Lit_float, Lit_double} \cup IntegerFormats

Unconstrained ==
    [kind |-> "Object", properties |-> <<>>, required |-> <<>>,
     additional_properties |-> [ap |-> "bool", b |-> TRUE]]

ResolvedTo(schema) == type_result.ok /\ type_result.v = schema

\* the three rules, for the type names and element types in `named`
ElementTypeRules(named) ==
    typePc = "resolved"
    => /\ (/\ type_input.ty \in {Lit_array, Lit_vector}
           /\ type_input.element_type \in PrimitiveNames \cup named)
          => ResolvedTo([kind |-> "Array", items |-> ExpectedItem(type_input.element_type)])
       /\ (type_input.ty = Lit_object /\ type_input.element_type = <<>>)
          => ResolvedTo(Unconstrained)
       /\ type_input.ty \in named
          => ResolvedTo(RefSchema(Lit_SchemasPrefix \o type_input.ty))

\* C14: for every DataType, "array" or "vector" with a primitive or named
\* elementType E resolves to Array with the resolution of E as items;
\* "object" with an empty elementType resolves to an unconstrained object;
\* a type name that is not reserved resolves to
\* Ref("#/components/schemas/<name>").
C14_ElementTypeResolution == ElementTypeRules(NamedTypes)

\* the same for the names that start neither with "/" nor with
\* "#/components/schemas/"
ElementTypeRulesForPlainNames == ElementTypeRules({Name_T})

(***************************************************************************)
(* Properties of the ordered serializers                                   *)
(***************************************************************************)
\* the sequences with the same elements as seq, each as often
Rearrangements(seq) ==
    {[i \in 1..Len(seq) |-> seq[order[i]]] : order \in Perms(Len(seq))}

\* the arrangement of a map's entries with the keys ascending
AscendingEntries(entries) ==
    CHOOSE sorted \in Rearrangements(entries) :
        \A i, j \in 1..Len(sorted) : i < j => StrLess(sorted[i].key, sorted[j].key)

\* the arrangement of a list of strings in ascending order
AscendingStrings(strings) ==
    CHOOSE sorted \in Rearrangements(strings) :
        \A i, j \in 1..Len(sorted) : i < j => ~StrLess(sorted[j], sorted[i])

\* C15: a map serializes with its keys in ascending order and a `required`
\* list serializes in ascending order, whatever the insertion order: every
\* map and every list with the same content gives the same text.
C15_StableSerialization ==
    /\ serPc = "map"
         => /\ serialized = MapText(AscendingEntries(ser_map))
            /\ \A other \in Rearrangements(ser_map) :
                 serialize_as_btree_map(other) = serialized
    /\ serPc = "strings"
         => /\ serialized = ListText(AscendingStrings(ser_strings))
            /\ \A other \in Rearrangements(ser_strings) :
                 serialize_strings_sorted(other) = serialized

\* the map of test_serialize_ordered_map, b inserted before a, is written
\* as {"a":1,"b":2}
C15_Witness ==
    /\ serPc = "map"
    /\ ser_map = <<MapEntry(Name_b, 2), MapEntry(Name_a, 1)>>
    /\ serialized = <<"{", "\"", "a", "\"", ":", "1", ",", "\"", "b", "\"", ":", "2", "}">>

(***************************************************************************)
(* Properties of navigate on literal paths                                 *)
(***************************************************************************)
\* the last call was navigate with a path of property and index tokens only
IsLiteralRead ==
    /\ patchPc = "read"
    /\ call.op = "navigate"
    /\ Len(CallTokens) >= 1
    /\ ~HasWildcard(CallTokens)

\* C16: navigate with in_wild = true on a path of literal tokens of which
\* one has no match at the node reached so far (missing key, index out of
\* range, wrong container kind) returns Ok with no results; it returns no
\* value found by applying the later tokens to the node where the match
\* failed.
C16_MismatchGivesNoResults ==
    (IsLiteralRead /\ call.in_wild /\ ~PrefixLoc(doc, CallTokens, 1).some)
    => /\ outcome.status = "ok"
       /\ outcome.result = <<>>


\* C17: navigate with in_wild = false on a path without wildcard returns
\* the one node at the path when every step exists with the right kind of
\* container, and fails otherwise.
C17_StrictLiteralRead ==
    (IsLiteralRead /\ ~call.in_wild)
    => LET there == PrefixLoc(doc, CallTokens, 1)
       IN  IF there.some
           THEN outcome.status = "ok" /\ outcome.result = <<there.value>>
           ELSE outcome.status = "err"

\* "a.k" was read strictly from a document that has it
C17_Witness ==
    /\ IsLiteralRead /\ ~call.in_wild
    /\ call.path = JoinDot(<<KeyA, KeyK>>)
    /\ outcome = NavOk(<<<<KeyStep(KeyA), KeyStep(KeyK)>>>>)

\* a strict read failed on a step that is missing
C17_WitnessMissing ==
    /\ IsLiteralRead /\ ~call.in_wild
    /\ Len(CallTokens) = 2
    /\ PrefixLoc(doc, SubSeq(CallTokens, 1, 1), 1).some
    /\ ~PrefixLoc(doc, CallTokens, 1).some
    /\ outcome.status = "err"


EndsInWildcard(toks) == Len(toks) >= 1 /\ toks[Len(toks)].kind = "Wildcard"

\* C18: patch_mut with a path whose last token is a wildcard returns an
\* error and leaves the document as it was.
C18_TrailingWildcardWriteFails ==
    (patchPc = "patched" /\ EndsInWildcard(CallTokens))
    => /\ outcome.status = "err"
       /\ doc = before

\* what the code does with such a write instead: every child takes the
\* empty rest of the path as the property named "", so `*` with a value on
\* an object that holds one empty object succeeds and writes under that key
TrailingWildcardWritesEmptyKey ==
    /\ patchPc = "patched"
    /\ call.path = <<STAR>>
    /\ call.value = Some(Num(2))
    /\ before = Obj(<<Entry(KeyK, Obj(<<>>))>>)
    /\ outcome.status = "ok"
    /\ doc = Obj(<<Entry(KeyK, Obj(<<Entry(<<>>, Num(2))>>))>>)


\* the locations reached by following the tokens toks from any node of the
\* document, the root included
ReachedFromAnyNode(node, toks) ==
    {l \o PrefixLoc(At(node, l), toks, 1).value :
        l \in {m \in AllLocs(node) : PrefixLoc(At(node, m), toks, 1).some}}

IsDeepSuffixRead ==
    /\ patchPc = "read"
    /\ call.op = "navigate"
    /\ call.in_wild
    /\ Len(CallTokens) = 3
    /\ CallTokens[1] = Wildcard("UntilNext")
    /\ CallTokens[2].kind = "Property"
    /\ CallTokens[3].kind = "Property"

\* C19: navigate("**.a.b", true) returns exactly the values reached by
\* following key a and then key b from any node at any depth.
C19_DeepSuffixFromMatch ==
    IsDeepSuffixRead
    => /\ outcome.status = "ok"
       /\ Range(outcome.result) = ReachedFromAnyNode(doc, SubSeq(CallTokens, 2, 3))


\* what the code does instead: the helper keeps looking for the first
\* literal after each match, so "**.a.k" on an object nested twice under
\* key a returns the node at a.a although the document has no key k
DeepSuffixMatchesFirstKeyTwice ==
    /\ IsDeepSuffixRead
    /\ call.path = JoinDot(<<<<STAR, STAR>>, KeyA, KeyK>>)
    /\ doc = Obj(<<Entry(KeyA, Obj(<<Entry(KeyA, Obj(<<>>))>>))>>)
    /\ outcome.status = "ok"
    /\ Range(outcome.result) = {<<KeyStep(KeyA), KeyStep(KeyA)>>}


\* the call is navigate("p.*.k", in_wild): p a prefix of property and
\* index tokens (maybe empty) that leads to a container, k a property name
IsFanoutKeyRead ==
    /\ patchPc = "read"
    /\ call.op = "navigate"
    /\ LET toks == CallTokens
           n == Len(toks)
       IN  /\ n >= 2
           /\ toks[n].kind = "Property"
           /\ toks[n - 1] = Wildcard("Once")
           /\ ~HasWildcard(SubSeq(toks, 1, n - 2))
           /\ LET p == PrefixLoc(doc, SubSeq(toks, 1, n - 2), 1)
              IN  /\ p.some
                  /\ IsObject(At(doc, p.value)) \/ IsArray(At(doc, p.value))

\* the location p of such a call
FanoutBase == PrefixLoc(doc, SubSeq(CallTokens, 1, Len(CallTokens) - 2), 1).value

\* the values under key k of the immediate children of the node at loc
ChildrenUnderKey(node, loc, k) ==
    LET kids == Children(At(node, loc))
    IN  {loc \o <<kids[j].step, KeyStep(k)>> :
            j \in {i \in 1..Len(kids) : IsObject(kids[i].v) /\ ContainsKey(kids[i].v, k)}}

\* C20: navigate("p.*.k", in_wild) with p an existing container succeeds
\* and returns exactly the values under key k of the immediate children of
\* the node at p; the node at p.k is not among them.
C20_FanoutEndsOuterWalk ==
    IsFanoutKeyRead
    => /\ outcome.status = "ok"
       /\ Range(outcome.result)
             = ChildrenUnderKey(doc, FanoutBase, CallTokens[Len(CallTokens)].name)

\* what the code keeps of C20: a successful call returns at least those values
FanoutReturnsChildrenUnderKey ==
    (IsFanoutKeyRead /\ outcome.status = "ok")
    => ChildrenUnderKey(doc, FanoutBase, CallTokens[Len(CallTokens)].name)
          \subseteq Range(outcome.result)


(***************************************************************************)
(* Properties of the deferral sentinels and of named type resolution       *)
(***************************************************************************)
Sentinels == {"VectorTypesShouldBeParsed", "ObjectTypesShouldBeParsed"}

ContainerNames == {Lit_array, Lit_vector, Lit_map, Lit_object}

\* C21: resolving a (type, elementType) pair never returns one of the two
\* deferral sentinels to the caller; a container whose element type names a
\* container again takes the unconstrained object as its element.
C21_SentinelsNotSurfaced ==
    typePc = "resolved"
    => /\ type_result.ok \/ type_result.err \notin Sentinels
       /\ (/\ type_input.ty \in {Lit_array, Lit_vector}
           /\ type_input.element_type \in ContainerNames)
          => ResolvedTo(ArraySchema(object_of_true))
       /\ (/\ type_input.ty \in {Lit_map, Lit_object}
           /\ type_input.element_type \in ContainerNames)
          => ResolvedTo(ObjectSchema(<<>>, <<>>, AdditionalSchema(object_of_true)))

\* what the code keeps of C21: only an element type array or vector makes
\* a container fail, and it fails with VectorTypesShouldBeParsed
SentinelOnlyForNestedVector ==
    typePc = "resolved"
    => (~type_result.ok
        <=> /\ type_input.ty \in ContainerNames
            /\ type_input.element_type \in {Lit_array, Lit_vector})
       /\ (~type_result.ok => type_result.err = "VectorTypesShouldBeParsed")


\* a type that is neither an object nor an enum, or both
IsMalformedType(ty) == (ty.fields = <<>>) <=> (ty.values = <<>>)

\* C22: compiling a help set that holds a type whose fields and values are
\* both empty or both non-empty does not complete: the components stage is
\* never passed with such a type in the help set.
C22_MalformedTypeFailsFast ==
    compilePc \in {"components", "paths", "tags"}
    => \A i \in 1..Len(help_set.types) : ~IsMalformedType(help_set.types[i])

\* what the code keeps of C22: a type with both fields and values stops
\* the build
TypeWithBothFailsFast ==
    compilePc \in {"components", "paths", "tags"}
    => \A i \in 1..Len(help_set.types) :
          help_set.types[i].fields = <<>> \/ help_set.types[i].values = <<>>


\* C23: an endpoint without a method is treated as GET: once the paths are
\* resolved its operation is in the get slot of the item of its path, and
\* that operation has no request body.
C23_NoMethodIsGet ==
    compilePc \in {"paths", "tags"}
    => \A i \in 1..Len(help_set.endpoints) :
          LET ep == help_set.endpoints[i]
          IN  (ep.path.some /\ ~ep.method.some)
              => /\ PathItemOf(raw_paths, ep.path.value)["Get"].some
                 /\ ~PathItemOf(raw_paths, ep.path.value)["Get"].value.request_body.some

\* what the code does instead, in the document: a help set whose only
\* endpoint has no method gives a path item without any operation
NoMethodLeavesEmptyItem ==
    (/\ compilePc \in {"paths", "tags"}
     /\ Len(help_set.endpoints) = 1
     /\ help_set.endpoints[1].path.some
     /\ ~help_set.endpoints[1].method.some)
    => raw_paths = <<PathEntry(help_set.endpoints[1].path.value, EmptyPathItem)>>

\* and in operation: without a method the one remaining argument is the
\* request body and gives no query parameter
NoMethodTakesBody ==
    (/\ opPc = "returned" /\ op_result.ok
     /\ ~op_endpoint.method.some
     /\ Len(Remaining(op_endpoint)) = 1)
    => /\ op_result.v.request_body.some
       /\ QueryParams(op_result.v) = <<>>


\* a list without the later duplicates of its elements
KeepFirst(seq) ==
    LET kept == {i \in 1..Len(seq) : \A j \in 1..(i - 1) : seq[j] # seq[i]}
        nth(n) == CHOOSE i \in kept : Cardinality({j \in kept : j < i}) = n - 1
    IN  [n \in 1..Cardinality(kept) |-> seq[nth(n)]]

\* the tags C24 gives the operation of an endpoint
DerivedTags(ep) ==
    SelectSeq(KeepFirst(PathTag(ep.path.value) \o ep.tags), LAMBDA t : t \notin IGNORE_TAGS)

\* endpoint i is the last one written to its slot of the path map
IsLastWriter(endpoints, i) ==
    /\ endpoints[i].path.some
    /\ endpoints[i].method.some
    /\ \A j \in (i + 1)..Len(endpoints) :
          ~(endpoints[j].path = endpoints[i].path /\ endpoints[j].method = endpoints[i].method)

\* C24: the tags of the operation of an endpoint are the path tag followed
\* by the declared tags, every later duplicate of an earlier tag removed
\* and no tag of the ignore list among them.
C24_OperationTagsDuplicateFree ==
    compilePc = "paths"
    => \A i \in 1..Len(help_set.endpoints) :
          LET ep == help_set.endpoints[i]
          IN  IsLastWriter(help_set.endpoints, i)
              => PathItemOf(raw_paths, ep.path.value)[ep.method.value].value.tags
                    = DerivedTags(ep)

\* what the code keeps of C24: the same holds whenever the path tag and the
\* declared tags have no duplicate that is not adjacent
TagsWithoutFarDuplicates ==
    compilePc = "paths"
    => \A i \in 1..Len(help_set.endpoints) :
          LET ep == help_set.endpoints[i]
          IN  (/\ IsLastWriter(help_set.endpoints, i)
               /\ Dedup(PathTag(ep.path.value) \o ep.tags)
                     = KeepFirst(PathTag(ep.path.value) \o ep.tags))
              => PathItemOf(raw_paths, ep.path.value)[ep.method.value].value.tags
                    = DerivedTags(ep)


\* the endpoint has a verb without a request body, a path, and exactly one
\* argument behind the path parameters
IsQueryFlattenCall ==
    /\ opPc = "returned"
    /\ op_result.ok
    /\ op_endpoint.method.some
    /\ op_endpoint.method.value \in {"Get", "Delete", "Head", "Options", "Trace"}
    /\ Len(Remaining(op_endpoint)) = 1

\* the schema of the one remaining argument, a reference followed into the
\* components
RemainingSchema ==
    LET schema == SchemaFromDataType(Remaining(op_endpoint)[1].ty).v
    IN  IF schema.kind = "Ref"
        THEN ComponentGet(spec_components, Last(Split(schema.ref_, SLASH))).value
        ELSE schema

\* C25: for such an endpoint whose argument has an object schema the
\* operation has one query parameter per declared property, named after it
\* and with its schema, required iff the argument is not optional, and none
\* named after the argument; for any other schema it has one query
\* parameter named after the argument.
C25_QueryFlattening ==
    IsQueryFlattenCall
    => LET arg == Remaining(op_endpoint)[1]
           queries == QueryParams(op_result.v)
       IN  IF RemainingSchema.kind = "Object"
           THEN /\ Len(queries) = Len(RemainingSchema.properties)
                /\ \A p \in Range(RemainingSchema.properties) :
                      \E i \in 1..Len(queries) :
                          queries[i] = Param("query", p.name, p.schema, ~arg.is_optional)
                /\ \A i \in 1..Len(queries) :
                      \E p \in Range(RemainingSchema.properties) : queries[i].name = p.name
           ELSE /\ Len(queries) = 1
                /\ queries[1].name = arg.name

\* GET /foo/{id} with arguments id and q of the object type T: one query
\* parameter for each of the two properties of T
C25_Witness ==
    /\ IsQueryFlattenCall
    /\ op_endpoint.method = Some("Get")
    /\ op_endpoint.path_params = <<Name_id>>
    /\ Remaining(op_endpoint)[1].name = Name_q
    /\ {QueryParams(op_result.v)[i].name : i \in 1..Len(QueryParams(op_result.v))}
          = {Name_x, Name_y}
    /\ \A i \in 1..Len(QueryParams(op_result.v)) : ~QueryParams(op_result.v)[i].is_required


(***************************************************************************)
(* Totality of the tokenizer                                               *)
(***************************************************************************)
\* C26: tokenize returns a token sequence or a SyntaxError value for every
\* expression and never aborts.
C26_TokenizeTotal == pathPc # "aborted"

\* what the code keeps of C26: an expression without a segment made of one
\* double quote always gives a token sequence
TokenizeTotalWithoutLoneQuote ==
    pathPc \in {"aborted", "iter"}
    => ((pathPc = "aborted")
        <=> (\E i \in 1..Len(SplitDot(expr)) : SplitDot(expr)[i] = <<QUOTE>>))


(***************************************************************************)
(* Failed patches                                                          *)
(***************************************************************************)
\* C27: whenever patch_mut returns an error the document is the document
\* before the call.
C27_FailedPatchAtomic ==
    (patchPc = "patched" /\ outcome.status = "err") => doc = before

\* what the code keeps of C27: a failed patch whose path is one property
\* or index token leaves the document as it was
FailedOneTokenPatchAtomic ==
    (/\ patchPc = "patched"
     /\ outcome.status = "err"
     /\ Len(CallTokens) = 1
     /\ ~HasWildcard(CallTokens))
    => doc = before

\* what the code does on a longer path: "*.k" with a value on an array of
\* an object and a number writes the object and then fails on the number
FanoutFailsHalfWritten ==
    /\ patchPc = "patched"
    /\ call.path = JoinDot(<<<<STAR>>, KeyK>>)
    /\ call.value = Some(Num(2))
    /\ before = Arr(<<Obj(<<>>), Num(1)>>)
    /\ outcome.status = "err"
    /\ doc = Arr(<<Obj(<<Entry(KeyK, Num(2))>>), Num(1)>>)


(***************************************************************************)
(* Every argument once                                                     *)
(***************************************************************************)
PathParamsOf(op) == SelectSeq(op.parameters, LAMBDA param : param.in = "path")

\* the operation has the path parameter of the argument's name
AsPathParam(op, arg) ==
    \E i \in 1..Len(PathParamsOf(op)) :
        RemoveFirst(PathParamsOf(op)[i].name, PLUS) = RemoveFirst(arg.name, PLUS)

\* the number of query parameters named after the argument
AsNamedQuery(op, arg) ==
    Cardinality({i \in 1..Len(QueryParams(op)) : QueryParams(op)[i].name = arg.name})

\* the argument is the one whose object schema was flattened into the
\* query parameters of the operation
AsFlattened(ep, comps, op, arg) ==
    /\ ep.method.some /\ ep.method.value \in {"Get", "Delete", "Head", "Options", "Trace"}
    /\ Remaining(ep) = <<arg>>
    /\ LET resolved == AndThen(SchemaFromDataType(arg.ty), LAMBDA s : Resolved(s, comps))
       IN  /\ resolved.ok
           /\ resolved.v.kind = "Object"
           /\ {QueryParams(op)[i].name : i \in 1..Len(QueryParams(op))}
                 = {resolved.v.properties[i].name : i \in 1..Len(resolved.v.properties)}

\* the request body of the operation is the schema of the argument
AsBody(op, arg) ==
    /\ op.request_body.some
    /\ SchemaFromDataType(arg.ty).ok
    /\ op.request_body.value = SchemaFromDataType(arg.ty).v

\* the number of places of the operation that stand for the argument
Representations(ep, comps, op, arg) ==
    (IF AsPathParam(op, arg) THEN 1 ELSE 0)
    + AsNamedQuery(op, arg)
    + (IF AsFlattened(ep, comps, op, arg) THEN 1 ELSE 0)
    + (IF AsBody(op, arg) THEN 1 ELSE 0)

DistinctArguments(ep) ==
    \A i, j \in 1..Len(ep.arguments) :
        ep.arguments[i].name = ep.arguments[j].name => i = j

\* C28: for an endpoint that resolves to an operation, each declared
\* argument (the names of the arguments being distinct) stands exactly once
\* in the operation: as the path parameter of its name, as a query
\* parameter or the flattened properties of its schema, or as the body.
C28_EachArgumentOnce ==
    (opPc = "returned" /\ op_result.ok /\ DistinctArguments(op_endpoint))
    => \A i \in 1..Len(op_endpoint.arguments) :
          Representations(op_endpoint, spec_components, op_result.v,
                          op_endpoint.arguments[i]) = 1

\* the path parameters are the names of the leading arguments, in order
PathParamsLead(ep) ==
    /\ Len(ep.path_params) <= Len(ep.arguments)
    /\ \A i \in 1..Len(ep.path_params) :
          RemoveFirst(ep.path_params[i], PLUS) = RemoveFirst(ep.arguments[i].name, PLUS)

\* what the code keeps of C28: the same when the path parameters are the
\* leading arguments
EachArgumentOnceWhenParamsLead ==
    (/\ opPc = "returned" /\ op_result.ok
     /\ DistinctArguments(op_endpoint)
     /\ PathParamsLead(op_endpoint))
    => \A i \in 1..Len(op_endpoint.arguments) :
          Representations(op_endpoint, spec_components, op_result.v,
                          op_endpoint.arguments[i]) = 1


(***************************************************************************)
(* The round trip of a string schema                                       *)
(***************************************************************************)
\* C29: deserializing the serialized form of a string schema gives the
\* list of variants it was made from, with the same name, key and
\* description for each variant.
C29_StringSchemaRoundTrip ==
    schemaPc = "read" => (schema_read.ok /\ schema_read.v = schema_variants)

\* a schema is written unless a variant without a name has a negative
\* number as its key
WrittenUnlessNegativeKey ==
    schemaPc \in {"written", "failed", "read"}
    => (schemaPc = "failed")
    <=> (\E i \in 1..Len(schema_variants) :
            /\ ~schema_variants[i].name.some
            /\ schema_variants[i].key.k = "Number"
            /\ schema_variants[i].key.n < 0)

\* what the written form holds of a variant: its name, or else its key
IsReadBackForm(variant) ==
    /\ variant.name.some
    /\ variant.key = EnumKey("String", 0, variant.name.value)
    /\ variant.description = variant.name

\* what the code keeps of C29: a list whose variants all have a name that
\* is also their string key and their description comes back as it was
RoundTripOfReadBackForm ==
    (/\ schemaPc = "read"
     /\ \A i \in 1..Len(schema_variants) : IsReadBackForm(schema_variants[i]))
    => (schema_read.ok /\ schema_read.v = schema_variants)

\* a schema of one such variant was written and read back
RoundTripReached ==
    /\ schemaPc = "read"
    /\ schema_variants = <<EnumVariant(EnumKey("String", 0, Name_a), Some(Name_a), Some(Name_a))>>
    /\ schema_read.ok


\* what the code does to a variant named x with key a and no description:
\* it comes back with x as its name, its key and its description
RoundTripRewritesKeyAndDescription ==
    /\ schemaPc = "read"
    /\ schema_variants = <<EnumVariant(EnumKey("String", 0, Name_a), Some(Name_x), None)>>
    /\ schema_read.ok
    /\ schema_read.v = <<EnumVariant(EnumKey("String", 0, Name_x), Some(Name_x), Some(Name_x))>>


(***************************************************************************)
(* The order of numeric enum keys                                          *)
(***************************************************************************)
AllNumberKeys(variants) ==
    /\ variants # <<>>
    /\ \A i \in 1..Len(variants) : variants[i].key.k = "Number"

\* C30: the variants of the schema of an enum type whose values are all
\* numbers are in ascending numeric order of their keys.
C30_NumericKeysByValue ==
    compilePc \in {"components", "paths", "tags"}
    => \A c \in 1..Len(doc_components) :
          LET schema == doc_components[c].schema
          IN  (schema.kind = "String" /\ AllNumberKeys(schema.variants))
              => \A i, j \in 1..Len(schema.variants) :
                    i < j => schema.variants[i].key.n <= schema.variants[j].key.n

\* what the code does instead: the keys are in ascending order of their
\* decimal text
NumericKeysByText ==
    compilePc \in {"components", "paths", "tags"}
    => \A c \in 1..Len(doc_components) :
          LET schema == doc_components[c].schema
          IN  (schema.kind = "String" /\ AllNumberKeys(schema.variants))
              => \A i, j \in 1..Len(schema.variants) :
                    i < j => ~StrLess(FormatUsize(schema.variants[j].key.n),
                                      FormatUsize(schema.variants[i].key.n))

====
